---------------------------- MODULE Spec2Model ----------------------------
(***************************************************************************)
(* A model of the snatch bitmap-font toolchain (retro-vault/snatch):       *)
(*   - the glyph route cost model and the 2-opt optimizer                  *)
(*     (lib/snatch/glyph_algorithms.cpp),                                  *)
(*   - the Partner Tiny encoder, its raw_bin serialization and the raster  *)
(*     decoder, and the Partner Bitmap serializer (plugins/...),           *)
(*   - the plugin host (lib/snatch/plugin_manager.cpp),                    *)
(*   - the pipeline orchestrator (src/main.cpp).                           *)
(* Each part is a state machine of its own specification; the variables of *)
(* the other parts stay at their idle values.  Strings that the code       *)
(* parses are sequences of one-character strings.                          *)
(***************************************************************************)
EXTENDS Integers, Sequences, FiniteSets, TLC

VARIABLES
    route,        \* the route handed to glyph_route_optimizer::tsp_2opt
    optimized,    \* the route tsp_2opt returned
    route_pc,     \* "off" | "ready" | "done"
    plugin_font,  \* the font value the stages of a codec run share
    src_font,     \* the font value as the extractor of the encode run left it
    transformer,  \* the transformer of the encode run: "none" | "tiny" | "bitmap"
    stage_rc,     \* the return code of the last stage
    stage_err,    \* the error buffer after the last stage
    out_file,     \* the bytes of the file raw_bin wrote
    codec_pc,     \* "off" | "extracted" | "transformed" | "exported" | "loaded"
                  \* | "decoded" | "failed"
    fs,           \* the file system: directory |-> its files in iteration order
    plugins_,     \* plugin_manager::plugins_
    dl_refs,      \* path |-> dlopen calls on it not yet matched by a dlclose
    host_pc,      \* "off" | "live" | "destroyed"
    host_loads,   \* the number of load calls issued on the host
    host_last,    \* the last operation on the host
    dl_closed,    \* the handles the destructor of the host closed, in order
    main_pc,      \* main's position: "off" | "start" | "parsed" | "resolved"
                  \* | "loaded" | "ready" | "extracted" | "transformed" | "exit"
    opt,          \* snatch_options as cli_parser::parse filled it
    env,          \* the environment variables main reads
    locals,       \* main's locals: paths, resolved names, plugins found
    calls,        \* the stage functions invoked so far, in order
    main_errbuf,  \* main's error buffer errbuf
    exit_code,    \* the value main returned, -1 while it runs
    err_out,      \* the error main wrote to std::cerr
    util_call,    \* the last call of a helper function: its name and arguments
    util_result   \* the value that call returned

routeVars == <<route, optimized, route_pc>>

codecVars == <<plugin_font, src_font, transformer, stage_rc, stage_err, out_file, codec_pc>>

hostVars == <<fs, plugins_, dl_refs, host_pc, host_loads, host_last, dl_closed>>

mainVars == <<main_pc, opt, env, locals, calls, main_errbuf, exit_code, err_out>>

utilVars == <<util_call, util_result>>

vars == <<routeVars, codecVars, hostVars, mainVars, utilVars>>

-----------------------------------------------------------------------------
(* Small arithmetic helpers (std::abs, std::max, std::min, std::clamp).    *)

Abs(v) == IF v < 0 THEN -v ELSE v

Max2(a, b) == IF a > b THEN a ELSE b

Min2(a, b) == IF a < b THEN a ELSE b

Clamp(v, lo, hi) == IF v < lo THEN lo ELSE IF v > hi THEN hi ELSE v

SeqToSet(s) == {s[i] : i \in 1..Len(s)}

SetMax(S, floor) == IF S = {} THEN floor
                    ELSE Max2(floor, CHOOSE v \in S : \A u \in S : u <= v)

SetMin(S, ceil) == IF S = {} THEN ceil
                   ELSE Min2(ceil, CHOOSE v \in S : \A u \in S : v <= u)

\* All sequences over S of length 0..n.
SeqsUpTo(S, n) == UNION {[1..k -> S] : k \in 0..n}

-----------------------------------------------------------------------------
(* Route cost model: glyph_route_cost_model with its default parameters.   *)

color_threshold_ == 0

pen_lift_cost_ == 3

color_change_cost_ == 2

max_free_line_run_ == 4

same_color(a, b) == Abs(a.color - b.color) <= color_threshold_

\* transition_cost returns the cost and, through its reference parameters,
\* dx and dy.
transition_cost(a, b) ==
    LET dx == a.x - b.x
        dy == a.y - b.y
        dist == Max2(Abs(dx), Abs(dy))
    IN  [cost |-> IF dist > 1 THEN dist + pen_lift_cost_
                  ELSE IF ~same_color(a, b) THEN dist + color_change_cost_
                  ELSE dist,
         dx |-> dx, dy |-> dy]

\* A loop that lets a step go free while line_len <= max_free_line_run_.
RECURSIVE total_cost_loop_long_run(_, _, _, _, _, _)
total_cost_loop_long_run(r, i, sum, prev_dx, prev_dy, line_len) ==
    IF i > Len(r) THEN sum
    ELSE LET t == transition_cost(r[i - 1], r[i])
             free == t.cost = 1 /\ t.dx = prev_dx /\ t.dy = prev_dy
                     /\ line_len <= max_free_line_run_
         IN  total_cost_loop_long_run(r, i + 1,
                             sum + (IF free THEN 0 ELSE t.cost),
                             t.dx, t.dy,
                             IF free THEN line_len + 1 ELSE 0)

\* The loop of total_cost from index i (1-based position of route[i] in the
\* C++ loop is i+1 here) with the loop's locals.
RECURSIVE total_cost_loop(_, _, _, _, _, _)
total_cost_loop(r, i, sum, prev_dx, prev_dy, line_len) ==
    IF i > Len(r) THEN sum
    ELSE LET t == transition_cost(r[i - 1], r[i])
             free == t.cost = 1 /\ t.dx = prev_dx /\ t.dy = prev_dy
                     /\ line_len < max_free_line_run_
         IN  total_cost_loop(r, i + 1,
                             sum + (IF free THEN 0 ELSE t.cost),
                             t.dx, t.dy,
                             IF free THEN line_len + 1 ELSE 0)

total_cost(r) == IF Len(r) < 2 THEN 0 ELSE total_cost_loop(r, 2, 0, 0, 0, 0)

-----------------------------------------------------------------------------
(* 2-opt optimizer: glyph_route_optimizer.  Indices i, k are the C++       *)
(* 0-based indices; r[n + 1] is route[n].                                  *)

\* A swap whose middle loop pushes route[k] at every step.
two_opt_swap_repeat(r, i, k) ==
    [n \in 1..Len(r) |-> IF n - 1 < i \/ n - 1 > k THEN r[n] ELSE r[k + 1]]

\* two_opt_swap: route[0..i-1], then route[k..i] reversed, then the rest.
two_opt_swap(r, i, k) ==
    [n \in 1..Len(r) |->
        IF n - 1 < i \/ n - 1 > k THEN r[n] ELSE r[(k - (n - 1 - i)) + 1]]

\* A scan whose inner loop stops one short of the last swappable index.
RECURSIVE first_improving_short(_, _, _, _)
first_improving_short(best, best_cost, i, k) ==
    LET swappable == Len(best) - 1 IN
    IF i >= swappable - 1 THEN <<>>
    ELSE IF k >= swappable - 1 THEN first_improving_short(best, best_cost, i + 1, i + 2)
    ELSE LET candidate == two_opt_swap(best, i, k) IN
         IF total_cost(candidate) < best_cost THEN <<candidate>>
         ELSE first_improving_short(best, best_cost, i, k + 1)

\* A scan whose inner loop goes on to the last index of the route.
RECURSIVE first_improving_to_end(_, _, _, _)
first_improving_to_end(best, best_cost, i, k) ==
    LET swappable == Len(best) - 1 IN
    IF i >= swappable - 1 THEN <<>>
    ELSE IF k >= swappable + 1 THEN first_improving_to_end(best, best_cost, i + 1, i + 2)
    ELSE LET candidate == two_opt_swap(best, i, k) IN
         IF total_cost(candidate) < best_cost THEN <<candidate>>
         ELSE first_improving_to_end(best, best_cost, i, k + 1)

\* A scan that also takes a candidate of the same cost.
RECURSIVE first_improving_or_equal(_, _, _, _)
first_improving_or_equal(best, best_cost, i, k) ==
    LET swappable == Len(best) - 1 IN
    IF i >= swappable - 1 THEN <<>>
    ELSE IF k >= swappable THEN first_improving_or_equal(best, best_cost, i + 1, i + 2)
    ELSE LET candidate == two_opt_swap(best, i, k) IN
         IF total_cost(candidate) <= best_cost THEN <<candidate>>
         ELSE first_improving_or_equal(best, best_cost, i, k + 1)

\* One scan of the nested for loops from (i, k): the first candidate of
\* strictly lower cost (as a one-element sequence), or <<>> when the scan
\* completes without one.
RECURSIVE first_improving(_, _, _, _)
first_improving(best, best_cost, i, k) ==
    LET swappable == Len(best) - 1 IN
    IF i >= swappable - 1 THEN <<>>
    ELSE IF k >= swappable THEN first_improving(best, best_cost, i + 1, i + 2)
    ELSE LET candidate == two_opt_swap(best, i, k) IN
         IF total_cost(candidate) < best_cost THEN <<candidate>>
         ELSE first_improving(best, best_cost, i, k + 1)

\* The while (improved) loop: restart the scan after every adopted candidate.
RECURSIVE tsp_2opt_loop(_, _)
tsp_2opt_loop(best, best_cost) ==
    LET found == first_improving(best, best_cost, 0, 1) IN
    IF found = <<>> THEN best
    ELSE tsp_2opt_loop(found[1], total_cost(found[1]))

tsp_2opt(r) == IF Len(r) < 3 THEN r ELSE tsp_2opt_loop(r, total_cost(r))

-----------------------------------------------------------------------------
(* Packed 1bpp glyph bitmaps (snatch_glyph_bitmap, plugin.h).  A glyph is  *)
(* [codepoint, width, height, bearing_y, stride_bytes, has_data, data];    *)
(* data[y * stride_bytes + b + 1] is the C++ data[y * stride_bytes + b],   *)
(* has_data = FALSE is the null data pointer.                              *)

Pow2(n) == IF n = 0 THEN 1 ELSE IF n = 1 THEN 2 ELSE IF n = 2 THEN 4
           ELSE IF n = 3 THEN 8 ELSE IF n = 4 THEN 16 ELSE IF n = 5 THEN 32
           ELSE IF n = 6 THEN 64 ELSE 128

\* (byte & (1u << bit)) != 0
BitOf(byte, bit) == (byte \div Pow2(bit)) % 2

\* bit_is_set(row, x) with row = data + y * stride_bytes.
bit_is_set(data, stride, x, y) ==
    BitOf(data[y * stride + (x \div 8) + 1], 7 - (x % 8)) = 1

glyph_readable(g) ==
    g.has_data /\ g.width > 0 /\ g.height > 0 /\ g.stride_bytes > 0

\* glyph_bitmap_analyzer::foreground_pixels: the set pixels in row-major
\* order.  The two nested loops visit pixel p = y * width + x in increasing
\* p, so the result is the set pixels sorted by p.
foreground_pixels(g, color) ==
    IF ~glyph_readable(g) THEN <<>>
    ELSE LET S == {p \in 0..(g.width * g.height - 1) :
                      bit_is_set(g.data, g.stride_bytes, p % g.width, p \div g.width)}
             nth(i) == CHOOSE p \in S : Cardinality({q \in S : q < p}) = i - 1
         IN  [i \in 1..Cardinality(S) |->
                 [x |-> nth(i) % g.width, y |-> nth(i) \div g.width, color |-> color]]

\* glyph_bounds as constructed: left = right = top = bottom = -1, empty.
glyph_bounds == [left |-> -1, right |-> -1, top |-> -1, bottom |-> -1, empty |-> TRUE]

\* The two nested loops of bounds over a whole row of stride_bytes * 8 bits
\* instead of the width pixels of the row.
RECURSIVE bounds_scan_stride(_, _, _)
bounds_scan_stride(g, p, out) ==
    IF p >= g.stride_bytes * 8 * g.height THEN out
    ELSE LET x == p % (g.stride_bytes * 8)
             y == p \div (g.stride_bytes * 8)
         IN  bounds_scan_stride(g, p + 1,
                 IF bit_is_set(g.data, g.stride_bytes, x, y)
                 THEN [out EXCEPT !.left = Min2(out.left, x), !.right = Max2(out.right, x),
                                  !.top = Min2(out.top, y), !.bottom = Max2(out.bottom, y)]
                 ELSE out)

\* The two nested loops of bounds from pixel p = y * width + x on.
RECURSIVE bounds_scan(_, _, _)
bounds_scan(g, p, out) ==
    IF p >= g.width * g.height THEN out
    ELSE LET x == p % g.width
             y == p \div g.width
         IN  bounds_scan(g, p + 1,
                 IF bit_is_set(g.data, g.stride_bytes, x, y)
                 THEN [out EXCEPT !.left = Min2(out.left, x), !.right = Max2(out.right, x),
                                  !.top = Min2(out.top, y), !.bottom = Max2(out.bottom, y)]
                 ELSE out)

\* glyph_bitmap_analyzer::bounds
bounds(g) ==
    IF ~glyph_readable(g) THEN glyph_bounds
    ELSE LET out == bounds_scan(g, 0, [glyph_bounds EXCEPT !.left = g.width,
                                                           !.top = g.height])
         IN  IF out.right < 0
             THEN [out EXCEPT !.empty = TRUE, !.left = -1, !.top = -1]
             ELSE [out EXCEPT !.empty = FALSE]

\* glyph_bitmap_analyzer::rightmost_set_bit
rightmost_set_bit(g) == bounds(g).right

\* glyph_bitmap_analyzer::leftmost_set_bit
leftmost_set_bit(g) == bounds(g).left

\* The foreground pixel positions of a glyph, as the analyzer reports them.
PixelSet(g) == {<<p.x, p.y>> : p \in SeqToSet(foreground_pixels(g, 1))}

-----------------------------------------------------------------------------
(* Partner Tiny encoder: partner_tiny_transform_plugin.cpp.                *)

kColorNone == 0

kColorFore == 1

u8_clamp(v) == Clamp(v, 0, 255)

\* encode_tiny_move: bits 7..0 are c0 dx dx dy dy sy sx c1.
encode_tiny_move(move) ==
    LET dx == Clamp(move.dx, -3, 3)
        dy == Clamp(move.dy, -3, 3)
        adx == Abs(dx)
        ady == Abs(dy)
        sx == IF dx < 0 THEN 1 ELSE 0
        sy == IF dy < 0 THEN 1 ELSE 0
        c0 == move.color % 2
        c1 == (move.color \div 2) % 2
    IN  c0 * 128 + adx * 32 + ady * 8 + sy * 4 + sx * 2 + c1

\* append_none_steps: the travel moves covering (dx, dy), at most 3 per axis
\* and step.  The while loop runs until both remainders are 0; its n-th
\* iteration takes what is left of each axis after n - 1 steps of 3.
none_steps(rem_x, rem_y) ==
    LET count == Max2((Abs(rem_x) + 2) \div 3, (Abs(rem_y) + 2) \div 3)
        step(rem, n) == LET left == Max2(0, Abs(rem) - 3 * (n - 1))
                        IN  IF rem > 0 THEN Min2(left, 3) ELSE -Min2(left, 3)
    IN  [n \in 1..count |->
            [dx |-> step(rem_x, n), dy |-> step(rem_y, n), color |-> kColorNone]]

\* The for loop of vectorize_glyph from point i with the cursor (cx, cy).
RECURSIVE vectorize_loop(_, _, _, _)
vectorize_loop(points, i, cx, cy) ==
    IF i > Len(points) THEN <<>>
    ELSE none_steps(points[i].x - cx, points[i].y - cy)
            \o <<[dx |-> 0, dy |-> 0, color |-> kColorFore]>>
            \o vectorize_loop(points, i + 1, points[i].x, points[i].y)

\* The point order vectorize_glyph walks.
vectorize_points(g, optimize_route) ==
    LET points == foreground_pixels(g, 1) IN
    IF optimize_route /\ Len(points) >= 4 THEN tsp_2opt(points) ELSE points

\* The moves vectorize_glyph emits for the ordered points, and the origin it
\* reports through its reference parameters (left at the caller's 0, 0 when
\* the glyph has no foreground).
vectorize_route(points) ==
    IF points = <<>> THEN [moves |-> <<>>, origin_x |-> 0, origin_y |-> 0]
    ELSE [moves |-> <<[dx |-> 0, dy |-> 0, color |-> kColorFore]>>
                       \o vectorize_loop(points, 2, points[1].x, points[1].y),
          origin_x |-> points[1].x,
          origin_y |-> points[1].y]

vectorize_glyph(g, optimize_route) == vectorize_route(vectorize_points(g, optimize_route))

\* find_glyph_by_codepoint: the first glyph of the table with the codepoint,
\* as a one-element sequence, or <<>> (nullptr).
find_glyph_by_codepoint(glyphs, cp) ==
    LET hits == {i \in 1..Len(glyphs) : glyphs[i].codepoint = cp} IN
    IF hits = {} THEN <<>>
    ELSE <<glyphs[CHOOSE i \in hits : \A j \in hits : i <= j]>>

-----------------------------------------------------------------------------
(* Plugin option helpers: plugin_util.h.  An option array is a sequence of *)
(* [key, value] records; std::optional is <<>> (nullopt) or <<v>>.         *)

Digits == <<"0", "1", "2", "3", "4", "5", "6", "7", "8", "9">>

IsDigit(c) == \E d \in 1..10 : Digits[d] = c

DigitVal(c) == (CHOOSE d \in 1..10 : Digits[d] = c) - 1

INT_MAX == 2147483647

RECURSIVE digits_value(_, _, _)
digits_value(str, i, acc) ==
    IF i > Len(str) THEN acc ELSE digits_value(str, i + 1, acc * 10 + DigitVal(str[i]))

\* plugin_parse_int: std::from_chars on the whole string: an optional '-',
\* then digits only, in the range of int.
plugin_parse_int(str) ==
    LET neg == Len(str) > 0 /\ str[1] = "-"
        body == IF neg THEN SubSeq(str, 2, Len(str)) ELSE str
    IN  IF body = <<>> \/ \E i \in 1..Len(body) : ~IsDigit(body[i]) THEN <<>>
        ELSE LET v == digits_value(body, 1, 0) IN
             IF neg THEN (IF v > INT_MAX + 1 THEN <<>> ELSE <<-v>>)
             ELSE (IF v > INT_MAX THEN <<>> ELSE <<v>>)

\* A lookup that scans from the first entry to the last.
plugin_kv_view_get_first(items, key) ==
    LET hits == {i \in 1..Len(items) : items[i].key = key} IN
    IF hits = {} THEN <<>>
    ELSE <<items[CHOOSE i \in hits : \A j \in hits : i <= j].value>>

\* plugin_kv_view::get: scan from the last entry to the first.  The option
\* arrays of the model hold no null key and no null value (add_kv in main
\* builds every entry from two std::string), so no entry is skipped.
plugin_kv_view_get(items, key) ==
    LET hits == {i \in 1..Len(items) : items[i].key = key} IN
    IF hits = {} THEN <<>>
    ELSE <<items[CHOOSE i \in hits : \A j \in hits : j <= i].value>>

plugin_parse_bool(raw, default_value) ==
    IF raw = <<>> \/ raw[1] = <<>> THEN default_value
    ELSE IF raw[1] \in {<<"1">>, <<"t", "r", "u", "e">>, <<"y", "e", "s">>} THEN TRUE
    ELSE IF raw[1] \in {<<"0">>, <<"f", "a", "l", "s", "e">>, <<"n", "o">>} THEN FALSE
    ELSE default_value

K_optimize == <<"o", "p", "t", "i", "m", "i", "z", "e">>

K_font_mode == <<"f", "o", "n", "t", "_", "m", "o", "d", "e">>

K_proportional == <<"p", "r", "o", "p", "o", "r", "t", "i", "o", "n", "a", "l">>

K_fixed == <<"f", "i", "x", "e", "d">>

K_letter_spacing ==
    <<"l", "e", "t", "t", "e", "r", "_", "s", "p", "a", "c", "i", "n", "g">>

K_spacing_hint == <<"s", "p", "a", "c", "i", "n", "g", "_", "h", "i", "n", "t">>

K_space_width == <<"s", "p", "a", "c", "e", "_", "w", "i", "d", "t", "h">>

-----------------------------------------------------------------------------
(* The font value (snatch_font) is                                         *)
(*   [glyph_width, glyph_height, first_codepoint, last_codepoint,          *)
(*    pixel_size, has_bitmap, glyphs, user_data];                          *)
(* has_bitmap = FALSE is a null bitmap_font (or glyph table); user_data is *)
(* a record whose first fields are magic and version, NoUserData for null. *)

SNATCH_PARTNER_TINY_MAGIC == 1347702361

SNATCH_PARTNER_TINY_VERSION == 1

SNATCH_PARTNER_TINY_BIN_MAGIC == 1347702338

SNATCH_PARTNER_TINY_BIN_VERSION == 1

SNATCH_PARTNER_BITMAP_MAGIC == 1346524237

SNATCH_PARTNER_BITMAP_VERSION == 1

NoUserData == [magic |-> 0, version |-> 0]

valid_partner_range(font) ==
    ~(font.first_codepoint < 0 \/ font.last_codepoint < font.first_codepoint
      \/ font.last_codepoint > 255)

\* The glyph owner partner_tiny_transform fills from the vectorized glyph:
\* the record fields, the glyph size used for the font maxima, and the
\* number of moves.
tiny_glyph_fields(cp, gw, gh, vec) ==
    LET bytes == IF vec.moves = <<>> THEN <<>>
                 ELSE <<u8_clamp(vec.origin_x), u8_clamp(vec.origin_y)>>
                         \o [m \in 1..Len(vec.moves) |-> encode_tiny_move(vec.moves[m])]
    IN  [codepoint |-> cp % 65536,
         width_minus_one |-> u8_clamp(gw - 1),
         height_minus_one |-> u8_clamp(gh - 1),
         data_size |-> Len(bytes) % 65536,
         data |-> bytes,
         gw |-> gw, gh |-> gh,
         n_moves |-> Len(vec.moves)]

\* The body of the per-codepoint loop of partner_tiny_transform once the
\* glyph has been looked up (found is <<g>>, or <<>> for nullptr).
tiny_glyph_of(font, cp, found, optimize_route) ==
    tiny_glyph_fields(cp,
        IF found # <<>> THEN Max2(1, found[1].width) ELSE Max2(1, font.glyph_width),
        IF found # <<>> THEN Max2(1, found[1].height) ELSE Max2(1, font.glyph_height),
        IF found # <<>> /\ found[1].has_data /\ found[1].width > 0
           /\ found[1].height > 0
        THEN vectorize_glyph(found[1], optimize_route)
        ELSE [moves |-> <<>>, origin_x |-> 0, origin_y |-> 0])

tiny_glyph_owner(font, cp, optimize_route) ==
    tiny_glyph_of(font, cp, find_glyph_by_codepoint(font.glyphs, cp), optimize_route)

\* A transform that serializes only the glyphs present in the table.
tiny_codepoints_present(font) ==
    LET cps == {cp \in font.first_codepoint..font.last_codepoint :
                   find_glyph_by_codepoint(font.glyphs, cp) # <<>>}
        nth(i) == CHOOSE cp \in cps : Cardinality({q \in cps : q < cp}) = i - 1
    IN  [i \in 1..Cardinality(cps) |-> nth(i)]

\* for (int cp = first; cp <= last; ++cp)
tiny_codepoints(font) ==
    [i \in 1..(font.last_codepoint - font.first_codepoint + 1) |->
        font.first_codepoint + i - 1]

\* The end of partner_tiny_transform: the move limit, then the user data
\* built from the glyph owners.
tiny_font_of(font, owners) ==
    LET idx == 1..Len(owners)
        max_width == Max2(Max2(1, font.glyph_width),
                          SetMax({owners[i].gw : i \in idx}, 1))
        max_height == Max2(Max2(1, font.glyph_height),
                           SetMax({owners[i].gh : i \in idx}, 1))
    IN  IF \E i \in idx : owners[i].n_moves > 255 THEN
            [rc |-> 32,
             err |-> "partner_tiny_transform: glyph has more than 255 moves",
             font |-> font]
        ELSE
            [rc |-> 0, err |-> "",
             font |-> [font EXCEPT !.user_data =
                 [magic |-> SNATCH_PARTNER_TINY_MAGIC,
                  version |-> SNATCH_PARTNER_TINY_VERSION,
                  glyph_count |-> Len(owners) % 65536,
                  max_width_minus_one |-> u8_clamp(max_width - 1),
                  max_height_minus_one |-> u8_clamp(max_height - 1),
                  glyphs |-> [i \in idx |->
                      [codepoint |-> owners[i].codepoint,
                       width_minus_one |-> owners[i].width_minus_one,
                       height_minus_one |-> owners[i].height_minus_one,
                       data_size |-> owners[i].data_size,
                       data |-> owners[i].data]]]]]

\* The per-codepoint loop of partner_tiny_transform over the codepoints cps.
tiny_owners(font, cps, optimize_route) ==
    [i \in 1..Len(cps) |-> tiny_glyph_owner(font, cps[i], optimize_route)]

\* partner_tiny_transform: [rc, err, font], font being the font value after
\* the call.
partner_tiny_transform(font, options) ==
    IF ~font.has_bitmap THEN
        [rc |-> 30, err |-> "partner_tiny_transform: bitmap font data missing",
         font |-> font]
    ELSE IF ~valid_partner_range(font) THEN
        [rc |-> 31, err |-> "partner_tiny_transform: invalid codepoint range",
         font |-> font]
    ELSE
        tiny_font_of(font,
            tiny_owners(font, tiny_codepoints(font),
                plugin_parse_bool(plugin_kv_view_get(options, K_optimize), TRUE)))

-----------------------------------------------------------------------------
(* Raw byte exporter: raw_bin_plugin.cpp.                                  *)

\* The concatenation of the sequences of seqs, in order.
RECURSIVE Flatten(_)
Flatten(seqs) ==
    IF seqs = <<>> THEN <<>>
    ELSE IF Len(seqs) = 1 THEN seqs[1]
    ELSE LET half == Len(seqs) \div 2 IN
         Flatten(SubSeq(seqs, 1, half)) \o Flatten(SubSeq(seqs, half + 1, Len(seqs)))

u16_le(v) == <<v % 256, (v \div 256) % 256>>

\* partner_tiny_data_from_user_data / partner_data_from_user_data: whether
\* user_data is accepted as the payload.
partner_tiny_data_from_user_data(font) ==
    /\ font.user_data.magic = SNATCH_PARTNER_TINY_MAGIC
    /\ font.user_data.version = SNATCH_PARTNER_TINY_VERSION
    /\ font.user_data.glyphs # <<>>
    /\ font.user_data.glyph_count # 0

partner_data_from_user_data(font) ==
    /\ font.user_data.magic = SNATCH_PARTNER_BITMAP_MAGIC
    /\ font.user_data.version = SNATCH_PARTNER_BITMAP_VERSION
    /\ font.user_data.bytes # <<>>
    /\ font.user_data.size # 0

\* The flags byte both Partner serializers build.
partner_flags(proportional, space_width, letter_spacing) ==
    (IF proportional THEN 128 ELSE 0) + (space_width % 8) * 16 + (letter_spacing % 16)

\* The font_mode / proportional options, read the same way by both.
partner_proportional(kv) ==
    LET mode == plugin_kv_view_get(kv, K_font_mode)
        by_mode == mode # <<>> /\ mode[1] # <<>> /\ mode[1] = K_proportional
    IN  plugin_parse_bool(plugin_kv_view_get(kv, K_proportional), by_mode)

\* sizes[lo] + ... + sizes[hi]
RECURSIVE SumSizes(_, _, _)
SumSizes(sizes, lo, hi) ==
    IF lo > hi THEN 0
    ELSE IF lo = hi THEN sizes[lo]
    ELSE LET mid == (lo + hi) \div 2 IN
         SumSizes(sizes, lo, mid) + SumSizes(sizes, mid + 1, hi)

\* The value a loop that starts at offset and adds sizes[k] after glyph k
\* holds before each of the glyphs i, i + 1, ...
running_offsets(sizes, i, offset) ==
    [k \in 1..(Len(sizes) - i + 1) |-> offset + SumSizes(sizes, i, i + k - 2)]

\* An offset table that leaves the 4-byte record header out of the running
\* offset.
tiny_offsets_no_header(glyphs, i, offset) ==
    running_offsets([k \in 1..Len(glyphs) |-> glyphs[k].data_size], i, offset)

\* The offsets loop of serialize_partner_tiny: the running 32-bit offset
\* before each glyph.
tiny_offsets(glyphs, i, offset) ==
    running_offsets([k \in 1..Len(glyphs) |-> 4 + glyphs[k].data_size], i, offset)

kGlyphClassTinyBits == 32

tiny_record(g) ==
    <<kGlyphClassTinyBits, g.width_minus_one, g.height_minus_one,
      (IF g.data_size >= 2 THEN g.data_size - 2 ELSE 0) % 256>>
        \o (IF g.data_size > 0 /\ g.data # <<>> THEN SubSeq(g.data, 1, g.data_size)
            ELSE <<>>)

\* The error buffer a caller hands to a plugin: [null, s], s its text.
Errbuf(s) == [null |-> FALSE, s |-> s]

NullErrbuf == [null |-> TRUE, s |-> ""]

\* plugin_set_err (plugin_util.h): nothing is written through a null pointer.
\* The buffers of the model are long enough for every message.
plugin_set_err(errbuf, message) ==
    IF errbuf.null THEN errbuf ELSE [errbuf EXCEPT !.s = message]

\* serialize_partner_tiny: [bytes, err]; bytes = <<>> on failure, err the
\* error buffer after the call.
serialize_partner_tiny(font, kv, errbuf) ==
    LET tiny == font.user_data
        raw_ls == plugin_kv_view_get(kv, K_letter_spacing)
        has_ls == raw_ls # <<>> /\ raw_ls[1] # <<>>
        parsed_ls == IF has_ls THEN plugin_parse_int(raw_ls[1]) ELSE <<0>>
        raw_sw == plugin_kv_view_get(kv, K_space_width)
        has_sw == raw_sw # <<>> /\ raw_sw[1] # <<>>
        parsed_sw == IF has_sw THEN plugin_parse_int(raw_sw[1]) ELSE <<0>>
        first == font.first_codepoint
        last == font.last_codepoint
        glyph_count == last - first + 1
        offsets == tiny_offsets(tiny.glyphs, 1, 5 + glyph_count * 2)
    IN  IF ~valid_partner_range(font) THEN
            [bytes |-> <<>>,
             err |-> plugin_set_err(errbuf, "raw_bin: invalid codepoint range for partner tiny stream")]
        ELSE IF parsed_ls = <<>> \/ parsed_ls[1] < 0 \/ parsed_ls[1] > 15 THEN
            [bytes |-> <<>>, err |-> plugin_set_err(errbuf, "raw_bin: letter_spacing must be 0..15")]
        ELSE IF parsed_sw = <<>> \/ parsed_sw[1] < 0 \/ parsed_sw[1] > 7 THEN
            [bytes |-> <<>>, err |-> plugin_set_err(errbuf, "raw_bin: space_width must be 0..7")]
        ELSE IF glyph_count # tiny.glyph_count THEN
            [bytes |-> <<>>,
             err |-> plugin_set_err(errbuf, "raw_bin: transformed tiny glyph count does not match codepoint range")]
        ELSE IF \E i \in 1..Len(offsets) : offsets[i] > 65535 THEN
            [bytes |-> <<>>, err |-> plugin_set_err(errbuf, "raw_bin: partner tiny stream too large (>64KiB)")]
        ELSE IF \E i \in 1..glyph_count : tiny.glyphs[i].data_size > 257 THEN
            [bytes |-> <<>>, err |-> plugin_set_err(errbuf, "raw_bin: partner tiny glyph has more than 255 moves")]
        ELSE
            [bytes |->
                <<partner_flags(partner_proportional(kv), parsed_sw[1], parsed_ls[1]),
                  tiny.max_width_minus_one, tiny.max_height_minus_one,
                  first % 256, last % 256>>
                \o Flatten([i \in 1..Len(offsets) |-> u16_le(offsets[i] % 65536)])
                \o Flatten([i \in 1..glyph_count |-> tiny_record(tiny.glyphs[i])]),
             err |-> errbuf]

\* The bitmap-table fallback of export_raw_bin: the rows of every glyph of
\* the range that is present and has data.
raw_glyph_rows(font) ==
    Flatten([i \in 1..(font.last_codepoint - font.first_codepoint + 1) |->
        LET found == find_glyph_by_codepoint(font.glyphs, font.first_codepoint + i - 1)
        IN  IF found = <<>> \/ ~found[1].has_data \/ found[1].stride_bytes <= 0 THEN <<>>
            ELSE SubSeq(found[1].data, 1,
                        Max2(0, found[1].height) * found[1].stride_bytes)])

\* The byte source selection of export_raw_bin (up to the file write):
\* [rc, err, packed]; rc = 0 means the bytes go on to the file.
raw_bin_packed(font, kv, errbuf) ==
    IF partner_tiny_data_from_user_data(font) THEN
        LET r == serialize_partner_tiny(font, kv, errbuf) IN
        IF r.bytes = <<>> /\ ~r.err.null /\ r.err.s # "" THEN
            [rc |-> 15, err |-> r.err, packed |-> <<>>]
        ELSE [rc |-> 0, err |-> r.err, packed |-> r.bytes]
    ELSE IF partner_data_from_user_data(font) THEN
        [rc |-> 0, err |-> errbuf,
         packed |-> SubSeq(font.user_data.bytes, 1, font.user_data.size)]
    ELSE IF ~font.has_bitmap THEN
        [rc |-> 10, err |-> plugin_set_err(errbuf, "raw_bin: bitmap font data missing"),
         packed |-> <<>>]
    ELSE IF font.first_codepoint < 0 \/ font.last_codepoint < font.first_codepoint
            \/ font.last_codepoint > 1114111 THEN
        [rc |-> 12, err |-> plugin_set_err(errbuf, "raw_bin: invalid codepoint range"),
         packed |-> <<>>]
    ELSE [rc |-> 0, err |-> errbuf, packed |-> raw_glyph_rows(font)]

\* export_raw_bin: [rc, err, written, file]; io is what the file system does
\* with the output file ("ok", "open_fails", "write_fails").
export_raw_bin(font, output_path, kv, errbuf, io) ==
    IF output_path = <<>> THEN
        [rc |-> 11, err |-> plugin_set_err(errbuf, "raw_bin: output path is empty"),
         written |-> FALSE, file |-> <<>>]
    ELSE LET p == raw_bin_packed(font, kv, errbuf) IN
         IF p.rc # 0 THEN [rc |-> p.rc, err |-> p.err, written |-> FALSE, file |-> <<>>]
         ELSE IF io = "open_fails" THEN
             [rc |-> 13, err |-> plugin_set_err(errbuf, "raw_bin: cannot open output file"),
              written |-> FALSE, file |-> <<>>]
         ELSE IF io = "write_fails" THEN
             [rc |-> 14, err |-> plugin_set_err(errbuf, "raw_bin: failed while writing output"),
              written |-> FALSE, file |-> <<>>]
         ELSE [rc |-> 0, err |-> p.err, written |-> TRUE, file |-> p.packed]

-----------------------------------------------------------------------------
(* C-array exporter: raw_c_plugin.cpp.  Its partner_data_from_user_data,   *)
(* bit_is_set and find_glyph_by_codepoint are copies of the ones above.    *)

K_bytes_per_line == <<"b", "y", "t", "e", "s", "_", "p", "e", "r", "_", "l", "i", "n", "e">>

K_bytes_per_row == <<"b", "y", "t", "e", "s", "_", "p", "e", "r", "_", "r", "o", "w">>

K_rows == <<"r", "o", "w", "s">>

K_hex_prefix == <<"h", "e", "x", "_", "p", "r", "e", "f", "i", "x">>

K_uppercase_hex == <<"u", "p", "p", "e", "r", "c", "a", "s", "e", "_", "h", "e", "x">>

\* parse_positive_int: the fallback for a missing or empty value, nullopt for
\* a value that is not a positive int.
parse_positive_int(raw, fallback) ==
    IF raw = <<>> \/ raw[1] = <<>> THEN <<fallback>>
    ELSE LET parsed == plugin_parse_int(raw[1]) IN
         IF parsed = <<>> THEN <<>>
         ELSE IF parsed[1] <= 0 THEN <<>> ELSE parsed

\* The bytes_per_row * rows bytes of the cell of codepoint cp: zero, with the
\* bits of the glyph's first rows and columns copied in.
raw_c_cell(font, cp, bytes_per_row, rows) ==
    LET found == find_glyph_by_codepoint(font.glyphs, cp)
        skip == IF found = <<>> THEN TRUE
                ELSE ~found[1].has_data \/ found[1].stride_bytes <= 0
        bit(n, b) ==
            LET x == ((n - 1) % bytes_per_row) * 8 + b
                y == (n - 1) \div bytes_per_row
            IN  IF y >= Min2(rows, found[1].height) THEN 0
                ELSE IF x >= Min2(bytes_per_row * 8, found[1].width) THEN 0
                ELSE IF bit_is_set(found[1].data, found[1].stride_bytes, x, y)
                     THEN Pow2(7 - b) ELSE 0
    IN  [n \in 1..(bytes_per_row * rows) |->
            IF skip THEN 0
            ELSE bit(n, 0) + bit(n, 1) + bit(n, 2) + bit(n, 3)
                 + bit(n, 4) + bit(n, 5) + bit(n, 6) + bit(n, 7)]

\* The byte source selection of export_raw_c: [rc, err, packed].
raw_c_packed(font, kv, errbuf) ==
    IF partner_data_from_user_data(font) THEN
        [rc |-> 0, err |-> errbuf,
         packed |-> SubSeq(font.user_data.bytes, 1, font.user_data.size)]
    ELSE IF ~font.has_bitmap THEN
        [rc |-> 10, err |-> plugin_set_err(errbuf, "raw_c: bitmap font data missing"), packed |-> <<>>]
    ELSE LET bytes_per_row ==
                 parse_positive_int(plugin_kv_view_get(kv, K_bytes_per_row),
                                    (Max2(font.glyph_width, 1) + 7) \div 8)
             rows == parse_positive_int(plugin_kv_view_get(kv, K_rows),
                                        Max2(font.glyph_height, 1))
             too_large(v) == IF v = <<>> THEN TRUE ELSE v[1] > 1024
         IN  IF too_large(bytes_per_row) THEN
                 [rc |-> 12, err |-> plugin_set_err(errbuf, "raw_c: bytes_per_row must be in range 1..1024"),
                  packed |-> <<>>]
             ELSE IF too_large(rows) THEN
                 [rc |-> 13, err |-> plugin_set_err(errbuf, "raw_c: rows must be in range 1..1024"),
                  packed |-> <<>>]
             ELSE IF font.first_codepoint < 0 \/ font.last_codepoint < font.first_codepoint
                     \/ font.last_codepoint > 1114111 THEN
                 [rc |-> 15, err |-> plugin_set_err(errbuf, "raw_c: invalid codepoint range"), packed |-> <<>>]
             ELSE [rc |-> 0, err |-> errbuf,
                   packed |-> Flatten([i \in 1..(font.last_codepoint - font.first_codepoint + 1) |->
                                 raw_c_cell(font, font.first_codepoint + i - 1,
                                            bytes_per_row[1], rows[1])])]

LowerHexDigits ==
    <<"0", "1", "2", "3", "4", "5", "6", "7", "8", "9", "a", "b", "c", "d", "e", "f">>

UpperHexDigits ==
    <<"0", "1", "2", "3", "4", "5", "6", "7", "8", "9", "A", "B", "C", "D", "E", "F">>

\* One element of the array: an optional 0x and two hex digits.
hex_literal(byte, use_hex_prefix, uppercase_hex) ==
    LET digits == IF uppercase_hex THEN UpperHexDigits ELSE LowerHexDigits IN
    (IF use_hex_prefix THEN <<"0", "x">> ELSE <<>>)
    \o <<digits[(byte \div 16) + 1], digits[(byte % 16) + 1]>>

\* export_raw_c: [rc, err, written, packed, file]; packed is the vector the
\* array is rendered from, file is the text written: the size its comment
\* states, the number of literals on a line and the literals of the array.
export_raw_c(font, output_path, kv, errbuf, io) ==
    LET none == [size |-> 0, per_line |-> 0, literals |-> <<>>]
        fail(rc, err) ==
            [rc |-> rc, err |-> err, written |-> FALSE, packed |-> <<>>, file |-> none]
        bytes_per_line == parse_positive_int(plugin_kv_view_get(kv, K_bytes_per_line), 8)
    IN  IF output_path = <<>> THEN fail(11, plugin_set_err(errbuf, "raw_c: output path is empty"))
        ELSE IF (IF bytes_per_line = <<>> THEN TRUE ELSE bytes_per_line[1] > 1024) THEN
            fail(14, plugin_set_err(errbuf,
                         "raw_c: bytes_per_line must be in range 1..1024"))
        ELSE LET p == raw_c_packed(font, kv, errbuf) IN
             IF p.rc # 0 THEN fail(p.rc, p.err)
             ELSE IF io = "open_fails" THEN
                 fail(16, plugin_set_err(errbuf, "raw_c: cannot open output file"))
             ELSE IF io = "write_fails" THEN
                 [rc |-> 17, err |-> plugin_set_err(errbuf, "raw_c: failed while writing output"),
                  written |-> FALSE, packed |-> p.packed, file |-> none]
             ELSE [rc |-> 0, err |-> p.err, written |-> TRUE, packed |-> p.packed,
                   file |-> [size |-> Len(p.packed), per_line |-> bytes_per_line[1],
                             literals |->
                                 [i \in 1..Len(p.packed) |->
                                     hex_literal(p.packed[i],
                                         plugin_parse_bool(plugin_kv_view_get(kv, K_hex_prefix), TRUE),
                                         plugin_parse_bool(plugin_kv_view_get(kv, K_uppercase_hex), FALSE))]]]

-----------------------------------------------------------------------------
(* Partner Tiny bin extractor and raster decoder:                          *)
(* partner_tiny_bin_extractor_plugin.cpp,                                  *)
(* partner_tiny_raster_transform_plugin.cpp.                               *)

EmptyFont ==
    [glyph_width |-> 0, glyph_height |-> 0, first_codepoint |-> 0,
     last_codepoint |-> 0, pixel_size |-> 0, has_bitmap |-> FALSE,
     glyphs |-> <<>>, user_data |-> NoUserData]

\* extract_tiny_bin: [rc, font]; file_bytes is the content of the input
\* file, readable says whether it could be opened.
extract_tiny_bin(input_path, readable, file_bytes) ==
    IF input_path = <<>> THEN [rc |-> 10, font |-> EmptyFont]
    ELSE IF ~readable THEN [rc |-> 12, font |-> EmptyFont]
    ELSE IF file_bytes = <<>> THEN [rc |-> 13, font |-> EmptyFont]
    ELSE [rc |-> 0,
          font |-> [EmptyFont EXCEPT !.user_data =
              [magic |-> SNATCH_PARTNER_TINY_BIN_MAGIC,
               version |-> SNATCH_PARTNER_TINY_BIN_VERSION,
               bytes |-> file_bytes,
               size |-> Len(file_bytes)]]]

\* bytes[i] of the C++ code.
At(bytes, i) == bytes[i + 1]

read_u16le(bytes, pos) == At(bytes, pos) + At(bytes, pos + 1) * 256

in_bounds(x, y, w, h) == x >= 0 /\ y >= 0 /\ x < w /\ y < h

\* write_pixel: the buffer after colour 1 sets, 2 clears, 3 toggles (x, y).
write_pixel(bytes, stride, w, h, x, y, color) ==
    IF ~in_bounds(x, y, w, h) THEN bytes
    ELSE LET bit_index == 7 - (x % 8)
             idx == y * stride + (x \div 8)
             b == At(bytes, idx)
             isset == BitOf(b, bit_index) = 1
             mask == Pow2(bit_index)
             nb == IF color = 1 THEN (IF isset THEN b ELSE b + mask)
                   ELSE IF color = 2 THEN (IF isset THEN b - mask ELSE b)
                   ELSE IF color = 3 THEN (IF isset THEN b - mask ELSE b + mask)
                   ELSE b
         IN  [bytes EXCEPT ![idx + 1] = nb]

\* The for loop of draw_line from column x, with the running y and error.
RECURSIVE draw_line_loop(_, _, _, _, _, _, _, _, _, _, _, _, _)
draw_line_loop(bytes, stride, w, h, steep, x, end_x, y, error, dx, dy, ystep, color) ==
    IF x > end_x THEN bytes
    ELSE LET drawn == IF steep THEN write_pixel(bytes, stride, w, h, y, x, color)
                      ELSE write_pixel(bytes, stride, w, h, x, y, color)
             e1 == error - dy
         IN  draw_line_loop(drawn, stride, w, h, steep, x + 1, end_x,
                            IF e1 < 0 THEN y + ystep ELSE y,
                            IF e1 < 0 THEN e1 + dx ELSE e1,
                            dx, dy, ystep, color)

\* draw_line: Bresenham from start to end, both [x, y] records.
draw_line(bytes, stride, w, h, start, end, color) ==
    LET steep == Abs(end.y - start.y) > Abs(end.x - start.x)
        s1 == IF steep THEN [x |-> start.y, y |-> start.x] ELSE start
        e1 == IF steep THEN [x |-> end.y, y |-> end.x] ELSE end
        s2 == IF s1.x > e1.x THEN e1 ELSE s1
        e2 == IF s1.x > e1.x THEN s1 ELSE e1
        dx == e2.x - s2.x
        dy == Abs(e2.y - s2.y)
        \* C++ int division truncates; dx >= 0 here.
        error == dx \div 2
        ystep == IF s2.y < e2.y THEN 1 ELSE -1
    IN  draw_line_loop(bytes, stride, w, h, steep, s2.x, e2.x, s2.y, error,
                       dx, dy, ystep, color)

\* A decoding that takes the sign of dx from bit 2 and the sign of dy from
\* bit 1.
decode_tiny_move_signs_swapped(mv) ==
    LET dx == (mv \div 32) % 4
        dy == (mv \div 8) % 4
        sx == IF (mv \div 4) % 2 = 1 THEN -1 ELSE 1
        sy == IF (mv \div 2) % 2 = 1 THEN -1 ELSE 1
    IN  [dx |-> sx * dx, dy |-> sy * dy,
         color |-> ((mv \div 128) % 2) + 2 * (mv % 2)]

\* The decoding of one move byte: [dx, dy, color], the signs applied.
decode_tiny_move(mv) ==
    LET dx == (mv \div 32) % 4
        dy == (mv \div 8) % 4
        sx == IF (mv \div 2) % 2 = 1 THEN -1 ELSE 1
        sy == IF (mv \div 4) % 2 = 1 THEN -1 ELSE 1
    IN  [dx |-> sx * dx, dy |-> sy * dy,
         color |-> ((mv \div 128) % 2) + 2 * (mv % 2)]

\* A move loop that leaves the cursor where it is on a move of colour 0.
RECURSIVE raster_moves_pen_up_stays(_, _, _, _, _, _, _, _)
raster_moves_pen_up_stays(stream, pos, m, zero, stride, gw, gh, origin) ==
    IF m = 0 THEN [buf |-> zero, cursor |-> origin]
    ELSE LET before == raster_moves_pen_up_stays(stream, pos, m - 1, zero, stride,
                                                 gw, gh, origin)
             mv == decode_tiny_move(At(stream, pos + m - 1))
             end == [x |-> before.cursor.x + mv.dx, y |-> before.cursor.y + mv.dy]
         IN  IF mv.color \in {1, 2, 3}
             THEN [cursor |-> end,
                   buf |-> draw_line(before.buf, stride, gw, gh, before.cursor, end,
                                     mv.color)]
             ELSE before

\* The move loop of one glyph: the pixel buffer and the cursor after the
\* first m moves, the moves starting at stream[pos].
RECURSIVE raster_moves(_, _, _, _, _, _, _, _)
raster_moves(stream, pos, m, zero, stride, gw, gh, origin) ==
    IF m = 0 THEN [buf |-> zero, cursor |-> origin]
    ELSE LET before == raster_moves(stream, pos, m - 1, zero, stride, gw, gh, origin)
             mv == decode_tiny_move(At(stream, pos + m - 1))
             end == [x |-> before.cursor.x + mv.dx, y |-> before.cursor.y + mv.dy]
         IN  [cursor |-> end,
              buf |-> IF mv.color \in {1, 2, 3}
                      THEN draw_line(before.buf, stride, gw, gh, before.cursor, end,
                                     mv.color)
                      ELSE before.buf]

\* The glyph the per-glyph loop builds from the record at off.
raster_glyph_at(stream, first, i, off, gw, gh, moves_count) ==
    LET stride == (gw + 7) \div 8
        zero == [n \in 1..(stride * gh) |-> 0]
    IN  [codepoint |-> first + i, width |-> gw, height |-> gh,
         bearing_y |-> gh, stride_bytes |-> stride, has_data |-> TRUE,
         data |-> IF moves_count > 0
                  THEN raster_moves(stream, off + 4 + 2, moves_count, zero, stride,
                                    gw, gh,
                                    [x |-> At(stream, off + 4),
                                     y |-> At(stream, off + 4 + 1)]).buf
                  ELSE zero]

\* The body of the per-glyph loop of transform_partner_tiny_raster for the
\* glyph index i (0-based): [rc, glyph].
raster_glyph(stream, size, first, i) ==
    LET off == read_u16le(stream, 5 + i * 2) IN
    IF off + 4 > size THEN [rc |-> 34, glyph |-> <<>>]
    ELSE IF At(stream, off + 3) > 0 /\ off + 4 + 2 + At(stream, off + 3) > size THEN
        [rc |-> 36, glyph |-> <<>>]
    ELSE
        [rc |-> 0,
         glyph |-> raster_glyph_at(stream, first, i, off, At(stream, off + 1) + 1,
                                   At(stream, off + 2) + 1, At(stream, off + 3))]

\* transform_partner_tiny_raster: [rc, font].
transform_partner_tiny_raster(font) ==
    LET bin == font.user_data IN
    IF bin = NoUserData THEN [rc |-> 30, font |-> font]
    ELSE IF bin.magic # SNATCH_PARTNER_TINY_BIN_MAGIC
            \/ bin.version # SNATCH_PARTNER_TINY_BIN_VERSION
            \/ bin.bytes = <<>> \/ bin.size < 5 THEN [rc |-> 31, font |-> font]
    ELSE
        LET stream == bin.bytes
            size == bin.size
            max_w == At(stream, 1) + 1
            max_h == At(stream, 2) + 1
            first == At(stream, 3)
            last == At(stream, 4)
            glyph_count == last - first + 1
        IN  IF last < first THEN [rc |-> 32, font |-> font]
            ELSE IF size < 5 + glyph_count * 2 THEN [rc |-> 33, font |-> font]
            ELSE
                LET gs == [i \in 1..glyph_count |-> raster_glyph(stream, size, first, i - 1)]
                    bad == {i \in 1..glyph_count : gs[i].rc # 0}
                IN  IF bad # {} THEN
                        [rc |-> gs[CHOOSE i \in bad : \A j \in bad : i <= j].rc,
                         font |-> font]
                    ELSE
                        [rc |-> 0,
                         font |-> [font EXCEPT
                             !.glyph_width = Max2(1, max_w),
                             !.glyph_height = Max2(1, max_h),
                             !.first_codepoint = first,
                             !.last_codepoint = last,
                             !.pixel_size = 0,
                             !.has_bitmap = TRUE,
                             !.glyphs = [i \in 1..glyph_count |-> gs[i].glyph]]]

\* bytes[i] as the decoder reads it: the byte of the stream, or oob where i
\* lies past the stream's end.
Peek(stream, i, oob) == IF i < Len(stream) THEN At(stream, i) ELSE oob

\* A loop body that wants only the record's first three bytes inside the
\* stream.
raster_glyph_reads_short_record(stream, size, i, oob) ==
    LET off_pos == 5 + i * 2
        off == Peek(stream, off_pos, oob) + Peek(stream, off_pos + 1, oob) * 256
        moves_count == Peek(stream, off + 3, oob)
    IN  IF off + 3 > size THEN [rc |-> 34, reads |-> {off_pos, off_pos + 1}]
        ELSE IF moves_count > 0 /\ off + 4 + 2 + moves_count > size THEN
            [rc |-> 36, reads |-> {off_pos, off_pos + 1, off + 1, off + 2, off + 3}]
        ELSE
            [rc |-> 0,
             reads |-> {off_pos, off_pos + 1, off + 1, off + 2, off + 3}
                       \cup (IF moves_count > 0
                             THEN (off + 4)..(off + 4 + 2 + moves_count - 1)
                             ELSE {})]

\* The byte indices the body of the per-glyph loop reads for the glyph index
\* i (0-based), and its return code: [rc, reads].
raster_glyph_reads(stream, size, i, oob) ==
    LET off_pos == 5 + i * 2
        off == Peek(stream, off_pos, oob) + Peek(stream, off_pos + 1, oob) * 256
        moves_count == Peek(stream, off + 3, oob)
    IN  IF off + 4 > size THEN [rc |-> 34, reads |-> {off_pos, off_pos + 1}]
        ELSE IF moves_count > 0 /\ off + 4 + 2 + moves_count > size THEN
            [rc |-> 36, reads |-> {off_pos, off_pos + 1, off + 1, off + 2, off + 3}]
        ELSE
            [rc |-> 0,
             reads |-> {off_pos, off_pos + 1, off + 1, off + 2, off + 3}
                       \cup (IF moves_count > 0
                             THEN (off + 4)..(off + 4 + 2 + moves_count - 1)
                             ELSE {})]

\* The byte indices transform_partner_tiny_raster reads of bin->bytes, up to
\* its return: [rc, reads].
raster_reads(font, oob) ==
    LET bin == font.user_data IN
    IF bin = NoUserData THEN [rc |-> 30, reads |-> {}]
    ELSE IF bin.magic # SNATCH_PARTNER_TINY_BIN_MAGIC
            \/ bin.version # SNATCH_PARTNER_TINY_BIN_VERSION
            \/ bin.bytes = <<>> \/ bin.size < 5 THEN [rc |-> 31, reads |-> {}]
    ELSE
        LET stream == bin.bytes
            size == bin.size
            first == Peek(stream, 3, oob)
            last == Peek(stream, 4, oob)
            glyph_count == last - first + 1
            header == {1, 2, 3, 4}
        IN  IF last < first THEN [rc |-> 32, reads |-> header]
            ELSE IF size < 5 + glyph_count * 2 THEN [rc |-> 33, reads |-> header]
            ELSE
                LET gs == [i \in 1..glyph_count |->
                              raster_glyph_reads(stream, size, i - 1, oob)]
                    bad == {i \in 1..glyph_count : gs[i].rc # 0}
                    stop == IF bad = {} THEN glyph_count
                            ELSE CHOOSE i \in bad : \A j \in bad : i <= j
                IN  [rc |-> IF bad = {} THEN 0 ELSE gs[stop].rc,
                     reads |-> header \cup UNION {gs[i].reads : i \in 1..stop}]

-----------------------------------------------------------------------------
(* Partner Bitmap serializer: partner_bitmap_transform_plugin.cpp.         *)

\* pack_glyph_rows: found is the glyph as <<g>>, or <<>> for nullptr.
pack_glyph_rows(found, cell_width, cell_height, max_bearing_y) ==
    LET bytes_per_row == (cell_width + 7) \div 8
        usable == found # <<>> /\ glyph_readable(found[1])
        g == found[1]
        y_offset == max_bearing_y - g.bearing_y
        \* whether the loops set bit (7 - b) of payload byte (dst_y, byte_index)
        lit(dst_y, byte_index, b) ==
            LET x == byte_index * 8 + b
                y == dst_y - y_offset
            IN  /\ y >= 0 /\ y < g.height
                /\ x < g.width /\ x < cell_width
                /\ bit_is_set(g.data, g.stride_bytes, x, y)
        byte_at(n) ==
            LET dst_y == (n - 1) \div bytes_per_row
                bi == (n - 1) % bytes_per_row
                bit(b) == IF lit(dst_y, bi, b) THEN Pow2(7 - b) ELSE 0
            IN  bit(0) + bit(1) + bit(2) + bit(3) + bit(4) + bit(5) + bit(6) + bit(7)
    IN  [width |-> Clamp(cell_width, 0, 255),
         height |-> Clamp(cell_height, 0, 255),
         payload |-> IF bytes_per_row <= 0 \/ cell_height <= 0 THEN <<>>
                     ELSE [n \in 1..(bytes_per_row * cell_height) |->
                              IF usable THEN byte_at(n) ELSE 0]]

\* The offsets loop of partner_bitmap_transform.
bitmap_offsets(blobs, i, offset) ==
    running_offsets([k \in 1..Len(blobs) |-> 4 + Len(blobs[k].payload)], i, offset)

bitmap_record(blob) ==
    <<0, blob.width, blob.height, Len(blob.payload) % 256>> \o blob.payload

\* for (int cp = first_ascii; cp <= last_ascii; ++cp)
bitmap_codepoints(font) ==
    [i \in 1..(font.last_codepoint - font.first_codepoint + 1) |->
        font.first_codepoint + i - 1]

\* partner_bitmap_transform: [rc, err, font].
partner_bitmap_transform(font, kv) ==
    LET raw_ls == plugin_kv_view_get(kv, K_letter_spacing)
        has_ls == raw_ls # <<>> /\ raw_ls[1] # <<>>
        raw_sh == plugin_kv_view_get(kv, K_spacing_hint)
        has_sh == raw_sh # <<>> /\ raw_sh[1] # <<>>
        parsed_ls == IF has_ls THEN plugin_parse_int(raw_ls[1])
                     ELSE IF has_sh THEN plugin_parse_int(raw_sh[1])
                     ELSE <<0>>
        proportional == partner_proportional(kv)
        raw_sw == plugin_kv_view_get(kv, K_space_width)
        has_space_width == raw_sw # <<>> /\ raw_sw[1] # <<>>
        parsed_sw == IF has_space_width THEN plugin_parse_int(raw_sw[1]) ELSE <<0>>
        cps == bitmap_codepoints(font)
        glyph_ptrs == [i \in 1..Len(cps) |-> find_glyph_by_codepoint(font.glyphs, cps[i])]
        present == {i \in 1..Len(cps) : glyph_ptrs[i] # <<>>}
        max_w == SetMax({glyph_ptrs[i][1].width : i \in present}, 0)
        max_bearing_y == SetMax({glyph_ptrs[i][1].bearing_y : i \in present}, 0)
        min_descender ==
            SetMin({glyph_ptrs[i][1].bearing_y - glyph_ptrs[i][1].height : i \in present}, 0)
        max_h == Max2(1, max_bearing_y - min_descender)
        fixed_cell_width == Max2(1, max_w)
        glyphs == [i \in 1..Len(cps) |->
                      pack_glyph_rows(glyph_ptrs[i],
                          IF proportional
                          THEN Max2(0, IF glyph_ptrs[i] # <<>> THEN glyph_ptrs[i][1].width
                                       ELSE 0)
                          ELSE fixed_cell_width,
                          max_h, max_bearing_y)]
        offsets == bitmap_offsets(glyphs, 1, 5 + Len(glyphs) * 2)
    IN  IF ~font.has_bitmap THEN
            [rc |-> 30, err |-> "partner_bitmap_transform: bitmap font data missing",
             font |-> font]
        ELSE IF ~valid_partner_range(font) THEN
            [rc |-> 31, err |-> "partner_bitmap_transform: invalid codepoint range",
             font |-> font]
        ELSE IF parsed_ls = <<>> \/ parsed_ls[1] < 0 \/ parsed_ls[1] > 15 THEN
            [rc |-> 32,
             err |-> IF has_ls THEN "partner_bitmap_transform: letter_spacing must be 0..15"
                     ELSE "partner_bitmap_transform: spacing_hint must be 0..15",
             font |-> font]
        ELSE IF parsed_sw = <<>> \/ parsed_sw[1] < 0 \/ parsed_sw[1] > 7 THEN
            [rc |-> 33, err |-> "partner_bitmap_transform: space_width must be 0..7",
             font |-> font]
        ELSE IF proportional /\ ~has_space_width THEN
            [rc |-> 34,
             err |-> "partner_bitmap_transform: space_width is required when proportional=true",
             font |-> font]
        ELSE IF \E i \in 1..Len(glyphs) : Len(glyphs[i].payload) > 255 THEN
            [rc |-> 35,
             err |-> "partner_bitmap_transform: glyph payload too large for Partner format",
             font |-> font]
        ELSE IF \E i \in 1..Len(offsets) : offsets[i] > 65535 THEN
            [rc |-> 36,
             err |-> "partner_bitmap_transform: serialized font too large (>64KiB)",
             font |-> font]
        ELSE
            LET bytes ==
                    <<partner_flags(proportional, parsed_sw[1], parsed_ls[1]),
                      Clamp(max_w, 0, 255), Clamp(max_h, 0, 255),
                      font.first_codepoint % 256, font.last_codepoint % 256>>
                    \o Flatten([i \in 1..Len(offsets) |-> u16_le(offsets[i])])
                    \o Flatten([i \in 1..Len(glyphs) |-> bitmap_record(glyphs[i])])
            IN  [rc |-> 0, err |-> "",
                 font |-> [font EXCEPT !.user_data =
                     [magic |-> SNATCH_PARTNER_BITMAP_MAGIC,
                      version |-> SNATCH_PARTNER_BITMAP_VERSION,
                      bytes |-> bytes,
                      size |-> Len(bytes)]]]

-----------------------------------------------------------------------------
(* The plugin host: plugin_manager over a file system of shared objects.   *)
(* A path is [dir, stem, ext]; a file is [stem, ext, regular, obj] where    *)
(* obj tells what dlopen, dlsym and the entry point of the object do; the   *)
(* file system maps a directory to its files in the order its directory     *)
(* iterator yields them.                                                    *)
(* A char* is [null, s].  The host is the record [plugins, refs]: the       *)
(* vector plugins_ and, for every path, the number of dlopen calls on it    *)
(* that no dlclose has matched yet.                                         *)

SNATCH_PLUGIN_ABI_VERSION == 5

SNATCH_PLUGIN_KIND_EXPORTER == 1

SNATCH_PLUGIN_KIND_TRANSFORMER == 2

SNATCH_PLUGIN_KIND_EXTRACTOR == 3

NullStr == [null |-> TRUE, s |-> <<>>]

CStr(s) == [null |-> FALSE, s |-> s]

ExtSo == <<".", "s", "o">>

PathOf(dir, stem, ext) == [dir |-> dir, stem |-> stem, ext |-> ext]

\* fs::directory_iterator / fs::exists over the modelled file system.
dir_exists(fsys, dir) == dir \in DOMAIN fsys

dir_entries(fsys, dir) == IF dir_exists(fsys, dir) THEN fsys[dir] ELSE <<>>

dir_files(fsys, dir) == SeqToSet(dir_entries(fsys, dir))

files_at(fsys, path) ==
    {f \in dir_files(fsys, path.dir) : f.stem = path.stem /\ f.ext = path.ext}

file_at(fsys, path) == CHOOSE f \in files_at(fsys, path) : TRUE

AllPaths(fsys) ==
    UNION {{PathOf(d, f.stem, f.ext) : f \in dir_files(fsys, d)} : d \in DOMAIN fsys}

dlopen(refs, path) == [refs EXCEPT ![path] = @ + 1]

dlclose(refs, path) == [refs EXCEPT ![path] = @ - 1]

valid_kind(info) ==
    \/ info.kind = SNATCH_PLUGIN_KIND_EXPORTER
    \/ info.kind = SNATCH_PLUGIN_KIND_TRANSFORMER
    \/ info.kind = SNATCH_PLUGIN_KIND_EXTRACTOR

has_format_non_null(info) == ~info.format.null

has_format(info) == ~info.format.null /\ info.format.s # <<>>

has_standard(info) == ~info.standard.null /\ info.standard.s # <<>>

\* The checks of load_plugin_file between dlopen and the push_back: TRUE when
\* one of them fails (each failure closes the handle and returns false).
plugin_rejected(obj) ==
    \/ ~obj.has_sym
    \/ obj.get_rc # 0
    \/ ~obj.has_info
    \/ obj.info.abi_version # SNATCH_PLUGIN_ABI_VERSION
    \/ ~valid_kind(obj.info)
    \/ (obj.info.kind = SNATCH_PLUGIN_KIND_EXPORTER /\ ~obj.info.export_font)
    \/ (obj.info.kind = SNATCH_PLUGIN_KIND_EXPORTER
        /\ (~has_format(obj.info) \/ ~has_standard(obj.info)))
    \/ (obj.info.kind = SNATCH_PLUGIN_KIND_TRANSFORMER /\ ~obj.info.transform_font)
    \/ (obj.info.kind = SNATCH_PLUGIN_KIND_EXTRACTOR /\ ~obj.info.extract_font)

\* load_plugin_file once the path is known to be a regular .so file.
load_shared_object(hs, path, obj) ==
    IF ~obj.dlopen_ok THEN hs
    ELSE IF plugin_rejected(obj)
    THEN [hs EXCEPT !.refs = dlclose(dlopen(hs.refs, path), path)]
    ELSE [plugins |-> Append(hs.plugins,
                             [handle |-> path, info |-> obj.info, path |-> path]),
          refs |-> dlopen(hs.refs, path)]

\* plugin_manager::load_plugin_file (its bool result is ignored by every
\* caller).
load_plugin_file(hs, fsys, path) ==
    IF files_at(fsys, path) = {} \/ ~file_at(fsys, path).regular THEN hs
    ELSE IF path.ext # ExtSo THEN hs
    ELSE load_shared_object(hs, path, file_at(fsys, path).obj)

\* The host after the first m entries of the directory iteration.
RECURSIVE load_from_dir_loop_until_failure(_, _, _, _, _)
load_from_dir_loop_until_failure(hs, fsys, dir, entries, m) ==
    IF m = 0 THEN hs
    ELSE IF \E k \in 1..(m - 1) :
               /\ entries[k].regular /\ entries[k].ext = ExtSo
               /\ entries[k].obj.dlopen_ok /\ plugin_rejected(entries[k].obj)
    THEN load_from_dir_loop_until_failure(hs, fsys, dir, entries, m - 1)
    ELSE IF ~entries[m].regular
    THEN load_from_dir_loop_until_failure(hs, fsys, dir, entries, m - 1)
    ELSE load_plugin_file(load_from_dir_loop_until_failure(hs, fsys, dir, entries, m - 1),
                          fsys, PathOf(dir, entries[m].stem, entries[m].ext))

RECURSIVE load_from_dir_loop(_, _, _, _, _)
load_from_dir_loop(hs, fsys, dir, entries, m) ==
    IF m = 0 THEN hs
    ELSE IF ~entries[m].regular
    THEN load_from_dir_loop(hs, fsys, dir, entries, m - 1)
    ELSE load_plugin_file(load_from_dir_loop(hs, fsys, dir, entries, m - 1),
                          fsys, PathOf(dir, entries[m].stem, entries[m].ext))

\* plugin_manager::load_from_dir.
load_from_dir(hs, fsys, dir) ==
    IF ~dir_exists(fsys, dir) THEN [hs EXCEPT !.plugins = <<>>]
    ELSE load_from_dir_loop([hs EXCEPT !.plugins = <<>>], fsys, dir,
                            dir_entries(fsys, dir), Len(dir_entries(fsys, dir)))

RECURSIVE load_named_loop(_, _, _, _, _)
load_named_loop(hs, fsys, dir, names, m) ==
    IF m = 0 THEN hs
    ELSE IF names[m] = <<>>
    THEN load_named_loop(hs, fsys, dir, names, m - 1)
    ELSE load_plugin_file(load_named_loop(hs, fsys, dir, names, m - 1),
                          fsys, PathOf(dir, names[m], ExtSo))

\* plugin_manager::load_named_from_dir.
load_named_from_dir(hs, fsys, dir, names) ==
    IF ~dir_exists(fsys, dir) THEN [hs EXCEPT !.plugins = <<>>]
    ELSE load_named_loop([hs EXCEPT !.plugins = <<>>], fsys, dir, names, Len(names))

\* The find_* functions return the index of the record found, 0 for nullptr:
\* the least index of a set of matching indices.
first_index(hits) ==
    IF hits = {} THEN 0 ELSE CHOOSE i \in hits : \A j \in hits : i <= j

find_by_name(plugins, name) ==
    first_index({i \in 1..Len(plugins) :
                    ~plugins[i].info.name.null /\ name = plugins[i].info.name.s})

find_by_name_any_kind(plugins, name, kind) == find_by_name(plugins, name)

find_by_name_and_kind(plugins, name, kind) ==
    first_index({i \in 1..Len(plugins) :
                    /\ ~plugins[i].info.name.null
                    /\ plugins[i].info.kind = kind
                    /\ name = plugins[i].info.name.s})

find_first_by_kind(plugins, kind) ==
    first_index({i \in 1..Len(plugins) : plugins[i].info.kind = kind})

\* The loop without its early return: every directory is scanned.
RECURSIVE load_from_dirs_in_order_all(_, _, _, _)
load_from_dirs_in_order_all(hs, fsys, dirs, i) ==
    IF i > Len(dirs) THEN hs
    ELSE load_from_dirs_in_order_all(load_from_dir(hs, fsys, dirs[i]), fsys, dirs, i + 1)

\* plugin_manager::load_from_dirs_in_order from the i-th directory on.
RECURSIVE load_from_dirs_in_order_from(_, _, _, _)
load_from_dirs_in_order_from(hs, fsys, dirs, i) ==
    IF i > Len(dirs) THEN hs
    ELSE LET loaded == load_from_dir(hs, fsys, dirs[i]) IN
         IF loaded.plugins # <<>> THEN loaded
         ELSE load_from_dirs_in_order_from(loaded, fsys, dirs, i + 1)

load_from_dirs_in_order(hs, fsys, dirs) ==
    load_from_dirs_in_order_from(hs, fsys, dirs, 1)

\* Some non-empty name of names is the name of a record.
any_found(plugins, names) ==
    \E k \in 1..Len(names) : names[k] # <<>> /\ find_by_name(plugins, names[k]) # 0

all_found(plugins, names) ==
    \A k \in 1..Len(names) : names[k] = <<>> \/ find_by_name(plugins, names[k]) # 0

RECURSIVE load_named_from_dirs_in_order_from(_, _, _, _, _)
load_named_from_dirs_in_order_from(hs, fsys, dirs, names, i) ==
    IF i > Len(dirs) THEN hs
    ELSE LET loaded == load_named_from_dir(hs, fsys, dirs[i], names) IN
         IF all_found(loaded.plugins, names) /\ loaded.plugins # <<>> THEN loaded
         ELSE load_named_from_dirs_in_order_from(loaded, fsys, dirs, names, i + 1)

load_named_from_dirs_in_order(hs, fsys, dirs, names) ==
    load_named_from_dirs_in_order_from(hs, fsys, dirs, names, 1)

\* plugin_manager::~plugin_manager: the handles after the first m records
\* were closed.
RECURSIVE close_plugins(_, _, _)
close_plugins(refs, plugins, m) ==
    IF m = 0 THEN refs
    ELSE dlclose(close_plugins(refs, plugins, m - 1), plugins[m].handle)

\* The handles the destructor passes to dlclose, in the order of its calls.
closed_handles(plugins) == [k \in 1..Len(plugins) |-> plugins[k].handle]

plugin_manager_dtor(hs) ==
    [plugins |-> <<>>, refs |-> close_plugins(hs.refs, hs.plugins, Len(hs.plugins)),
     closed |-> closed_handles(hs.plugins)]

-----------------------------------------------------------------------------
(* Idle values of each part's variables.                                   *)

RouteIdle ==
    /\ route = <<>>
    /\ optimized = <<>>
    /\ route_pc = "off"

CodecIdle ==
    /\ plugin_font = EmptyFont
    /\ src_font = EmptyFont
    /\ transformer = "none"
    /\ stage_rc = 0
    /\ stage_err = ""
    /\ out_file = <<>>
    /\ codec_pc = "off"

HostIdle ==
    /\ fs = <<>>
    /\ plugins_ = <<>>
    /\ dl_refs = <<>>
    /\ host_pc = "off"
    /\ host_loads = 0
    /\ host_last = [op |-> "none", dir |-> ""]
    /\ dl_closed = <<>>

NoError == [text |-> "", arg |-> <<>>]

\* getenv: [null, s].
NullEnv == [null |-> TRUE, s |-> ""]

DefaultOptions ==
    [plugin_dir |-> "", extractor |-> <<>>, extractor_parameters |-> <<>>,
     transformer |-> <<>>, transformer_parameters |-> <<>>, exporter |-> <<>>,
     exporter_parameters |-> <<>>]

NoLocals ==
    [input_path |-> <<>>, output_path |-> <<>>, extractor_plugin_name |-> <<>>,
     exporter_plugin_name |-> <<>>, extractor |-> 0, transformer |-> 0, plugin |-> 0]

NoCall == [fn |-> "none"]

UtilIdle ==
    /\ util_call = NoCall
    /\ util_result = <<>>

MainIdle ==
    /\ main_pc = "off"
    /\ opt = DefaultOptions
    /\ env = [SNATCH_PLUGIN_DIR |-> NullEnv, HOME |-> NullEnv]
    /\ locals = NoLocals
    /\ calls = <<>>
    /\ main_errbuf = ""
    /\ exit_code = -1
    /\ err_out = NoError

-----------------------------------------------------------------------------
(* The optimizer's specification: a caller hands any route of coloured     *)
(* points to tsp_2opt.                                                     *)

MaxRouteLen == 4

RouteXs == {0, 1, 2}

RouteYs == {0, 1}

RouteColors == {1, 2}

RoutePoints == [x : RouteXs, y : RouteYs, color : RouteColors]

InitRoute ==
    /\ route \in SeqsUpTo(RoutePoints, MaxRouteLen)
    /\ optimized = <<>>
    /\ route_pc = "ready"
    /\ CodecIdle
    /\ HostIdle
    /\ MainIdle
    /\ UtilIdle

RunTsp2opt ==
    /\ route_pc = "ready"
    /\ optimized' = tsp_2opt(route)
    /\ route_pc' = "done"
    /\ UNCHANGED <<route, codecVars, hostVars, mainVars, utilVars>>

NextRoute == RunTsp2opt

SpecRoute == InitRoute /\ [][NextRoute]_vars

-----------------------------------------------------------------------------
(* The optimizer step by step: every scan of tsp_2opt's while loop is one  *)
(* step; optimized holds best, and route_pc = "scanning" while the loop    *)
(* runs.                                                                   *)

MaxScanLen == 4

\* The corner pixels of a 3 x 2 glyph, the colours alternating.
ScanPoints ==
    {[x |-> x, y |-> y, color |-> 1 + (((x \div 2) + y) % 2)] : x \in {0, 2}, y \in RouteYs}

InitScan ==
    /\ route \in SeqsUpTo(ScanPoints, MaxScanLen)
    /\ optimized = <<>>
    /\ route_pc = "ready"
    /\ CodecIdle
    /\ HostIdle
    /\ MainIdle
    /\ UtilIdle

\* tsp_2opt up to the while loop: a route of fewer than three points is
\* returned as it is.
BeginTsp2opt ==
    /\ route_pc = "ready"
    /\ optimized' = route
    /\ route_pc' = IF Len(route) < 3 THEN "done" ELSE "scanning"
    /\ UNCHANGED <<route, codecVars, hostVars, mainVars, utilVars>>

\* One pass of the while loop: the scan up to the first candidate of lower
\* cost, which becomes best and restarts the scan, or to its end, which ends
\* the loop.
ScanTsp2opt ==
    /\ route_pc = "scanning"
    /\ LET found == first_improving(optimized, total_cost(optimized), 0, 1) IN
          IF found = <<>>
          THEN /\ route_pc' = "done"
               /\ UNCHANGED optimized
          ELSE /\ optimized' = found[1]
               /\ UNCHANGED route_pc
    /\ UNCHANGED <<route, codecVars, hostVars, mainVars, utilVars>>

NextScan ==
    \/ BeginTsp2opt
    \/ ScanTsp2opt

\* The loop is sequential code: a step that can be taken is taken.
SpecScan == InitScan /\ [][NextScan]_vars /\ WF_vars(NextScan)

-----------------------------------------------------------------------------
(* The codec specification: an encode run (an extractor's font, then one   *)
(* of the Partner transformers or none, then raw_bin) followed by a decode *)
(* run over the file written (partner_tiny_bin_extractor, then             *)
(* partner_tiny_raster_transform).                                         *)

\* The packed rows an extractor builds for a w x h glyph whose foreground is
\* the pixel set px (stride_for_bits, set_bit: MSB first).
MakeGlyph(cp, w, h, by, px) ==
    LET stride == (w + 7) \div 8
        bit(n, b) == IF <<((n - 1) % stride) * 8 + b, (n - 1) \div stride>> \in px
                     THEN Pow2(7 - b) ELSE 0
    IN  [codepoint |-> cp, width |-> w, height |-> h, bearing_y |-> by,
         stride_bytes |-> stride, has_data |-> stride * h > 0,
         data |-> [n \in 1..(stride * h) |->
                      bit(n, 0) + bit(n, 1) + bit(n, 2) + bit(n, 3)
                      + bit(n, 4) + bit(n, 5) + bit(n, 6) + bit(n, 7)]]

MaxGlyphs == 2

SmallW == 2

\* Every bitmap of SmallW x 2 pixels, and a few shapes of other sizes: a
\* row crossing a byte boundary, glyphs wider or taller than 256 pixels, a
\* glyph whose two pixels are more than 255 moves apart, and glyphs without
\* pixels or data.
SmallShapes ==
    {[w |-> SmallW, h |-> 2, by |-> 2, px |-> px] :
        px \in SUBSET ((0..(SmallW - 1)) \X (0..1))}

OtherShapes ==
    {[w |-> 9, h |-> 1, by |-> 1, px |-> px] : px \in SUBSET {<<0, 0>>, <<8, 0>>}}
    \cup {[w |-> 258, h |-> 1, by |-> 1, px |-> {<<257, 0>>}],
          [w |-> 1, h |-> 258, by |-> 258, px |-> {<<0, 257>>}],
          [w |-> 800, h |-> 3, by |-> 3, px |-> {<<0, 0>>, <<799, 0>>}],
          [w |-> 0, h |-> 2, by |-> 2, px |-> {}],
          [w |-> 2, h |-> 0, by |-> 0, px |-> {}]}

\* The shapes of the fonts with several glyphs.
FewShapes ==
    {[w |-> 2, h |-> 2, by |-> 2, px |-> {<<0, 0>>, <<1, 1>>}],
     [w |-> 1, h |-> 1, by |-> 0, px |-> {}],
     [w |-> 3, h |-> 1, by |-> 1, px |-> {<<0, 0>>, <<2, 0>>}],
     [w |-> 9, h |-> 3, by |-> 1, px |-> {<<8, 2>>}]}

FontCodepoints == {65, 66}

FontRanges == {<<65, 65>>, <<65, 66>>, <<64, 66>>, <<66, 65>>, <<255, 256>>, <<-1, 65>>}

GlyphOf(cp, sh) == MakeGlyph(cp, sh.w, sh.h, sh.by, sh.px)

FontOf(range, glyphs) ==
    [glyph_width |-> SetMax({glyphs[i].width : i \in 1..Len(glyphs)}, 0),
     glyph_height |-> SetMax({glyphs[i].height : i \in 1..Len(glyphs)}, 0),
     first_codepoint |-> range[1], last_codepoint |-> range[2],
     pixel_size |-> 0, has_bitmap |-> glyphs # <<>>, glyphs |-> glyphs,
     user_data |-> NoUserData]

\* Fonts of one glyph of any shape, and fonts of up to MaxGlyphs glyphs of
\* distinct codepoints over every range.
ExtractedFonts ==
    {FontOf(<<65, 65>>, <<GlyphOf(65, sh)>>) : sh \in SmallShapes \cup OtherShapes}
    \cup
    {FontOf(range, [i \in 1..Len(gs) |-> GlyphOf(gs[i][1], gs[i][2])]) :
        range \in FontRanges,
        gs \in {q \in SeqsUpTo(FontCodepoints \X FewShapes, MaxGlyphs) :
                   \A i, j \in 1..Len(q) : i # j => q[i][1] # q[j][1]}}

Opt(k, v) == [key |-> k, value |-> v]

TinyOptions == {<<>>, <<Opt(K_optimize, <<"0">>)>>}

BitmapOptions ==
    {<<>>,
     <<Opt(K_font_mode, K_proportional), Opt(K_space_width, <<"3">>),
       Opt(K_letter_spacing, <<"2">>)>>,
     <<Opt(K_proportional, <<"1">>)>>,
     <<Opt(K_spacing_hint, <<"1", "6">>)>>}

ExportOptions ==
    {<<>>,
     <<Opt(K_font_mode, K_proportional), Opt(K_space_width, <<"3">>),
       Opt(K_letter_spacing, <<"1">>)>>,
     <<Opt(K_space_width, <<"9">>)>>}

OutputPath == <<"o", ".", "b", "i", "n">>

InitCodec ==
    /\ plugin_font \in ExtractedFonts
    /\ src_font = plugin_font
    /\ transformer = "none"
    /\ stage_rc = 0
    /\ stage_err = ""
    /\ out_file = <<>>
    /\ codec_pc = "extracted"
    /\ RouteIdle
    /\ HostIdle
    /\ MainIdle
    /\ UtilIdle

TinyTransform ==
    /\ codec_pc = "extracted"
    /\ \E options \in TinyOptions :
          LET r == partner_tiny_transform(plugin_font, options) IN
          /\ plugin_font' = r.font
          /\ stage_rc' = r.rc
          /\ stage_err' = r.err
          /\ codec_pc' = IF r.rc = 0 THEN "transformed" ELSE "failed"
    /\ transformer' = "tiny"
    /\ UNCHANGED <<src_font, out_file, routeVars, hostVars, mainVars, utilVars>>

BitmapTransform ==
    /\ codec_pc = "extracted"
    /\ \E options \in BitmapOptions :
          LET r == partner_bitmap_transform(plugin_font, options) IN
          /\ plugin_font' = r.font
          /\ stage_rc' = r.rc
          /\ stage_err' = r.err
          /\ codec_pc' = IF r.rc = 0 THEN "transformed" ELSE "failed"
    /\ transformer' = "bitmap"
    /\ UNCHANGED <<src_font, out_file, routeVars, hostVars, mainVars, utilVars>>

\* main clears the error buffer before it calls the exporter.
ExportRawBin ==
    /\ codec_pc \in {"extracted", "transformed"}
    /\ \E options \in ExportOptions, io \in {"ok", "open_fails", "write_fails"} :
          LET r == export_raw_bin(plugin_font, OutputPath, options, Errbuf(""), io) IN
          /\ stage_rc' = r.rc
          /\ stage_err' = r.err.s
          /\ out_file' = r.file
          /\ codec_pc' = IF r.rc = 0 THEN "exported" ELSE "failed"
    /\ UNCHANGED <<plugin_font, src_font, transformer, routeVars, hostVars, mainVars, utilVars>>

ExtractTinyBin ==
    /\ codec_pc = "exported"
    /\ LET r == extract_tiny_bin(OutputPath, TRUE, out_file) IN
          /\ plugin_font' = r.font
          /\ stage_rc' = r.rc
          /\ codec_pc' = IF r.rc = 0 THEN "loaded" ELSE "failed"
    /\ stage_err' = ""
    /\ UNCHANGED <<src_font, transformer, out_file, routeVars, hostVars, mainVars, utilVars>>

TinyRasterTransform ==
    /\ codec_pc = "loaded"
    /\ LET r == transform_partner_tiny_raster(plugin_font) IN
          /\ plugin_font' = r.font
          /\ stage_rc' = r.rc
          /\ codec_pc' = IF r.rc = 0 THEN "decoded" ELSE "failed"
    /\ stage_err' = ""
    /\ UNCHANGED <<src_font, transformer, out_file, routeVars, hostVars, mainVars, utilVars>>

NextCodec ==
    \/ TinyTransform
    \/ BitmapTransform
    \/ ExportRawBin
    \/ ExtractTinyBin
    \/ TinyRasterTransform

SpecCodec == InitCodec /\ [][NextCodec]_vars

-----------------------------------------------------------------------------
(* The host specification: a plugin_manager over a file system with the    *)
(* directories "d1" (any small mix of files) and "d2" (an installation     *)
(* with an extractor and an exporter); "missing" does not exist.  A caller *)
(* issues up to MaxLoads load calls and then destroys the host.            *)

N_ttf_extractor == <<"t", "t", "f", "_", "e", "x", "t", "r", "a", "c", "t", "o", "r">>

N_image_extractor == <<"i", "m", "a", "g", "e", "_", "e", "x", "t", "r", "a", "c", "t", "o", "r">>

N_partner_tiny_transform == <<"p", "a", "r", "t", "n", "e", "r", "_", "t", "i", "n", "y", "_", "t", "r", "a", "n", "s", "f", "o", "r", "m">>

N_raw_bin == <<"r", "a", "w", "_", "b", "i", "n">>

N_raw_c == <<"r", "a", "w", "_", "c">>

N_nosym == <<"n", "o", "s", "y", "m">>

N_getfail == <<"g", "e", "t", "f", "a", "i", "l">>

N_getnull == <<"g", "e", "t", "n", "u", "l", "l">>

N_oldabi == <<"o", "l", "d", "a", "b", "i">>

N_badkind == <<"b", "a", "d", "k", "i", "n", "d">>

N_exp_nocb == <<"e", "x", "p", "_", "n", "o", "c", "b">>

N_exp_nofmt == <<"e", "x", "p", "_", "n", "o", "f", "m", "t">>

N_exp_nostd == <<"e", "x", "p", "_", "n", "o", "s", "t", "d">>

N_tr_nocb == <<"t", "r", "_", "n", "o", "c", "b">>

N_ex_nocb == <<"e", "x", "_", "n", "o", "c", "b">>

N_notes == <<"n", "o", "t", "e", "s">>

N_subdir == <<"s", "u", "b", "d", "i", "r">>

N_broken == <<"b", "r", "o", "k", "e", "n">>

N_anon == <<"a", "n", "o", "n">>

N_bin == <<"b", "i", "n">>

N_bitmap == <<"b", "i", "t", "m", "a", "p">>

ExtTxt == <<".", "t", "x", "t">>

\* A snatch_plugin_info; the callbacks are TRUE when non-null.
Info(name, format, standard, abi, kind, tf, ef, xf) ==
    [name |-> name, format |-> format, standard |-> standard,
     abi_version |-> abi, kind |-> kind,
     transform_font |-> tf, export_font |-> ef, extract_font |-> xf]

\* A shared object that opens, exports snatch_plugin_get and returns info.
SharedObject(info) ==
    [dlopen_ok |-> TRUE, has_sym |-> TRUE, get_rc |-> 0, has_info |-> TRUE,
     info |-> info]

File(stem, ext, regular, obj) ==
    [stem |-> stem, ext |-> ext, regular |-> regular, obj |-> obj]

ExtractorInfo(name) ==
    Info(name, NullStr, NullStr, SNATCH_PLUGIN_ABI_VERSION,
         SNATCH_PLUGIN_KIND_EXTRACTOR, FALSE, FALSE, TRUE)

TransformerInfo(name) ==
    Info(name, CStr(N_bitmap), CStr(N_bin), SNATCH_PLUGIN_ABI_VERSION,
         SNATCH_PLUGIN_KIND_TRANSFORMER, TRUE, FALSE, FALSE)

ExporterInfo(name) ==
    Info(name, CStr(N_bin), CStr(N_bitmap), SNATCH_PLUGIN_ABI_VERSION,
         SNATCH_PLUGIN_KIND_EXPORTER, FALSE, TRUE, FALSE)

PluginFile(stem, info) == File(stem, ExtSo, TRUE, SharedObject(info))

F_ttf_extractor == PluginFile(N_ttf_extractor, ExtractorInfo(CStr(N_ttf_extractor)))

F_partner_tiny_transform ==
    PluginFile(N_partner_tiny_transform, TransformerInfo(CStr(N_partner_tiny_transform)))

F_raw_bin == PluginFile(N_raw_bin, ExporterInfo(CStr(N_raw_bin)))

\* raw_bin.so holding a transformer that calls itself raw_bin.
F_raw_bin_transformer == PluginFile(N_raw_bin, TransformerInfo(CStr(N_raw_bin)))

\* An extractor whose info->name is null.
F_anon == PluginFile(N_anon, ExtractorInfo(NullStr))

ValidFiles == {F_ttf_extractor, F_partner_tiny_transform, F_raw_bin, F_anon}

\* One file for every check of load_plugin_file that can fail after dlopen.
RejectedFiles ==
    {File(N_nosym, ExtSo, TRUE,
          [SharedObject(ExporterInfo(CStr(N_nosym))) EXCEPT !.has_sym = FALSE]),
     File(N_getfail, ExtSo, TRUE,
          [SharedObject(ExporterInfo(CStr(N_getfail))) EXCEPT !.get_rc = 1]),
     File(N_getnull, ExtSo, TRUE,
          [SharedObject(ExporterInfo(CStr(N_getnull))) EXCEPT !.has_info = FALSE]),
     PluginFile(N_oldabi,
                [ExporterInfo(CStr(N_oldabi)) EXCEPT
                    !.abi_version = SNATCH_PLUGIN_ABI_VERSION - 1]),
     PluginFile(N_badkind, [ExtractorInfo(CStr(N_badkind)) EXCEPT !.kind = 0]),
     PluginFile(N_exp_nocb,
                [ExporterInfo(CStr(N_exp_nocb)) EXCEPT
                    !.export_font = FALSE, !.transform_font = TRUE,
                    !.extract_font = TRUE]),
     PluginFile(N_exp_nofmt, [ExporterInfo(CStr(N_exp_nofmt)) EXCEPT !.format = CStr(<<>>)]),
     PluginFile(N_exp_nostd, [ExporterInfo(CStr(N_exp_nostd)) EXCEPT !.standard = NullStr]),
     PluginFile(N_tr_nocb,
                [TransformerInfo(CStr(N_tr_nocb)) EXCEPT
                    !.transform_font = FALSE, !.export_font = TRUE]),
     PluginFile(N_ex_nocb,
                [ExtractorInfo(CStr(N_ex_nocb)) EXCEPT
                    !.extract_font = FALSE, !.transform_font = TRUE])}

\* Files that are never opened, or that dlopen refuses: a plugin under
\* another extension, a directory named like a plugin, a broken object.
SkippedFiles ==
    {File(N_notes, ExtTxt, TRUE, SharedObject(ExporterInfo(CStr(N_notes)))),
     File(N_subdir, ExtSo, FALSE, SharedObject(ExporterInfo(CStr(N_subdir)))),
     File(N_broken, ExtSo, TRUE,
          [SharedObject(ExporterInfo(CStr(N_broken))) EXCEPT !.dlopen_ok = FALSE])}

MaxDirFiles == 2

MaxLoads == 2

\* Up to MaxDirFiles files of distinct names, at most one of them not a
\* valid plugin, in every order.
DirContents ==
    {c \in {v \cup b : v \in SUBSET ValidFiles,
                        b \in {{}} \cup {{f} : f \in RejectedFiles \cup SkippedFiles}} :
        /\ Cardinality(c) <= MaxDirFiles
        /\ \A f, g \in c : f # g => f.stem # g.stem}

\* The orders in which a directory iterator may yield the files S.
Orders(S) ==
    {q \in [1..Cardinality(S) -> S] : \A i, j \in 1..Cardinality(S) : i # j => q[i] # q[j]}

InstallDir == <<F_ttf_extractor, F_raw_bin>>

HostFileSystems ==
    UNION {{[d \in {"d1", "d2"} |-> IF d = "d1" THEN entries ELSE InstallDir] :
               entries \in Orders(c)} : c \in DirContents}

DirArgs == {"d1", "d2", "missing"}

DirLists == {<<"d1", "d2">>, <<"d2", "d1">>, <<"missing", "d1">>}

NameLists ==
    {<<N_ttf_extractor, N_raw_bin>>,
     <<N_ttf_extractor, N_partner_tiny_transform, N_raw_bin>>,
     <<<<>>, N_oldabi, N_anon>>}

Host == [plugins |-> plugins_, refs |-> dl_refs]

LastOp(op, dir) == [op |-> op, dir |-> dir]

LastOrderedOp(op, dirs, names) == [op |-> op, dir |-> "", dirs |-> dirs, names |-> names]

InitHost ==
    /\ fs \in HostFileSystems
    /\ plugins_ = <<>>
    /\ dl_refs = [p \in AllPaths(fs) |-> 0]
    /\ host_pc = "live"
    /\ host_loads = 0
    /\ host_last = LastOp("none", "")
    /\ dl_closed = <<>>
    /\ RouteIdle
    /\ CodecIdle
    /\ MainIdle
    /\ UtilIdle

HostLoadFromDir ==
    /\ host_pc = "live"
    /\ host_loads < MaxLoads
    /\ \E dir \in DirArgs :
          LET hs == load_from_dir(Host, fs, dir) IN
          /\ plugins_' = hs.plugins
          /\ dl_refs' = hs.refs
          /\ host_last' = LastOp("load_from_dir", dir)
    /\ host_loads' = host_loads + 1
    /\ UNCHANGED <<fs, host_pc, dl_closed, routeVars, codecVars, mainVars, utilVars>>

HostLoadNamedFromDir ==
    /\ host_pc = "live"
    /\ host_loads < MaxLoads
    /\ \E dir \in DirArgs, names \in NameLists :
          LET hs == load_named_from_dir(Host, fs, dir, names) IN
          /\ plugins_' = hs.plugins
          /\ dl_refs' = hs.refs
          /\ host_last' = LastOp("load_named_from_dir", dir)
    /\ host_loads' = host_loads + 1
    /\ UNCHANGED <<fs, host_pc, dl_closed, routeVars, codecVars, mainVars, utilVars>>

HostLoadFromDirsInOrder ==
    /\ host_pc = "live"
    /\ host_loads < MaxLoads
    /\ \E dirs \in DirLists :
          LET hs == load_from_dirs_in_order(Host, fs, dirs) IN
          /\ plugins_' = hs.plugins
          /\ dl_refs' = hs.refs
          /\ host_last' = LastOrderedOp("load_from_dirs_in_order", dirs, <<>>)
    /\ host_loads' = host_loads + 1
    /\ UNCHANGED <<fs, host_pc, dl_closed, routeVars, codecVars, mainVars, utilVars>>

HostLoadNamedFromDirsInOrder ==
    /\ host_pc = "live"
    /\ host_loads < MaxLoads
    /\ \E dirs \in DirLists, names \in NameLists :
          LET hs == load_named_from_dirs_in_order(Host, fs, dirs, names) IN
          /\ plugins_' = hs.plugins
          /\ dl_refs' = hs.refs
          /\ host_last' = LastOrderedOp("load_named_from_dirs_in_order", dirs, names)
    /\ host_loads' = host_loads + 1
    /\ UNCHANGED <<fs, host_pc, dl_closed, routeVars, codecVars, mainVars, utilVars>>

HostDestroy ==
    /\ host_pc = "live"
    /\ LET hs == plugin_manager_dtor(Host) IN
          /\ plugins_' = hs.plugins
          /\ dl_refs' = hs.refs
          /\ dl_closed' = hs.closed
    /\ host_pc' = "destroyed"
    /\ host_last' = LastOp("destroy", "")
    /\ UNCHANGED <<fs, host_loads, routeVars, codecVars, mainVars, utilVars>>

NextHost ==
    \/ HostLoadFromDir
    \/ HostLoadNamedFromDir
    \/ HostLoadFromDirsInOrder
    \/ HostLoadNamedFromDirsInOrder
    \/ HostDestroy

SpecHost == InitHost /\ [][NextHost]_vars

-----------------------------------------------------------------------------
(* The orchestrator's helpers (src/main.cpp): parameter strings, stage     *)
(* resolution, the plugin search path.  An optional is <<>> or <<v>>.      *)

X_ttf == <<".", "t", "t", "f">>

X_otf == <<".", "o", "t", "f">>

X_png == <<".", "p", "n", "g">>

X_jpg == <<".", "j", "p", "g">>

X_jpeg == <<".", "j", "p", "e", "g">>

X_bmp == <<".", "b", "m", "p">>

X_gif == <<".", "g", "i", "f">>

X_tga == <<".", "t", "g", "a">>

X_webp == <<".", "w", "e", "b", "p">>

T_asm == <<"a", "s", "m">>

T_c == <<"c">>

T_bin == <<"b", "i", "n">>

T_partner_asm == <<"p", "a", "r", "t", "n", "e", "r", "_", "a", "s", "m">>

T_partner_bitmap_asm == <<"p", "a", "r", "t", "n", "e", "r", "_", "b", "i", "t", "m", "a", "p", "_", "a", "s", "m">>

T_partner_sdcc_asm_tiny_dashed == <<"p", "a", "r", "t", "n", "e", "r", "-", "s", "d", "c", "c", "-", "a", "s", "m", "-", "t", "i", "n", "y">>

T_partner_tiny_asm == <<"p", "a", "r", "t", "n", "e", "r", "_", "t", "i", "n", "y", "_", "a", "s", "m">>

T_partner_sdcc_asm_bitmap_dashed == <<"p", "a", "r", "t", "n", "e", "r", "-", "s", "d", "c", "c", "-", "a", "s", "m", "-", "b", "i", "t", "m", "a", "p">>

T_partner_bitmap_asm_sdcc == <<"p", "a", "r", "t", "n", "e", "r", "_", "b", "i", "t", "m", "a", "p", "_", "a", "s", "m", "_", "s", "d", "c", "c">>

N_partner_sdcc_asm_tiny == <<"p", "a", "r", "t", "n", "e", "r", "_", "s", "d", "c", "c", "_", "a", "s", "m", "_", "t", "i", "n", "y">>

N_partner_sdcc_asm_bitmap == <<"p", "a", "r", "t", "n", "e", "r", "_", "s", "d", "c", "c", "_", "a", "s", "m", "_", "b", "i", "t", "m", "a", "p">>

K_input == <<"i", "n", "p", "u", "t">>

K_output == <<"o", "u", "t", "p", "u", "t">>

isspace(c) == c \in {" ", "\t", "\n", "\r", "\f"}

\* trim_copy: s without its leading and trailing whitespace.
trim_copy(s) ==
    LET keep == {i \in 1..Len(s) : ~isspace(s[i])}
    IN  IF keep = {} THEN <<>>
        ELSE SubSeq(s, SetMin(keep, Len(s)), SetMax(keep, 1))

\* std::string::find(c): the first index of c in s, 0 for npos.
find_char(s, c) == SetMin({i \in 1..Len(s) : s[i] = c}, Len(s) + 1) % (Len(s) + 1)

\* The pair of one non-empty trimmed token: a bare key has the value "".
kv_of_token(token) ==
    IF find_char(token, "=") = 0 THEN [key |-> token, value |-> <<>>]
    ELSE [key |-> trim_copy(SubSeq(token, 1, find_char(token, "=") - 1)),
          value |-> trim_copy(SubSeq(token, find_char(token, "=") + 1, Len(token)))]

\* The std::getline(ss, token, ',') loop from position start on: the pairs
\* of the tokens that are not empty once trimmed.
RECURSIVE kv_pairs_from(_, _)
kv_pairs_from(raw, start) ==
    IF start > Len(raw) THEN <<>>
    ELSE LET stop == SetMin({i \in start..Len(raw) : raw[i] = ","}, Len(raw) + 1)
             token == trim_copy(SubSeq(raw, start, stop - 1))
         IN  (IF token = <<>> THEN <<>> ELSE <<kv_of_token(token)>>)
             \o kv_pairs_from(raw, stop + 1)

parse_kv_pairs(raw) == kv_pairs_from(raw, 1)

\* find_kv_value: the value of the first pair whose key is key.
RECURSIVE first_value(_, _)
first_value(pairs, key) ==
    IF pairs = <<>> THEN <<>>
    ELSE IF Head(pairs).key = key THEN <<Head(pairs).value>>
    ELSE first_value(Tail(pairs), key)

find_kv_value(raw, key) == first_value(parse_kv_pairs(raw), key)

\* The std::getline loop of append_kv_params from position start on.
RECURSIVE append_kv_from(_, _, _)
append_kv_from(raw, start, skip_keys) ==
    IF start > Len(raw) THEN <<>>
    ELSE LET stop == SetMin({i \in start..Len(raw) : raw[i] = ","}, Len(raw) + 1)
             token == trim_copy(SubSeq(raw, start, stop - 1))
             eq == find_char(token, "=")
             key == trim_copy(SubSeq(token, 1, eq - 1))
         IN  (IF token = <<>> THEN <<>>
              ELSE IF eq = 0
              THEN (IF token \in skip_keys THEN <<>>
                    ELSE <<[key |-> token, value |-> <<>>]>>)
              ELSE IF key \in skip_keys THEN <<>>
              ELSE <<[key |-> key,
                      value |-> trim_copy(SubSeq(token, eq + 1, Len(token)))]>>)
             \o append_kv_from(raw, stop + 1, skip_keys)

\* An append_kv_params that skips no key.
append_kv_params_keep_all(raw, skip_keys) == append_kv_from(raw, 1, {})

\* append_kv_params: the option array built from raw, the skip keys left out.
append_kv_params(raw, skip_keys) ==
    IF raw = <<>> THEN <<>> ELSE append_kv_from(raw, 1, skip_keys)

UpperCase == <<"A", "B", "C", "D", "E", "F", "G", "H", "I", "J", "K", "L", "M",
               "N", "O", "P", "Q", "R", "S", "T", "U", "V", "W", "X", "Y", "Z">>

LowerCase == <<"a", "b", "c", "d", "e", "f", "g", "h", "i", "j", "k", "l", "m",
               "n", "o", "p", "q", "r", "s", "t", "u", "v", "w", "x", "y", "z">>

tolower(c) ==
    IF \E i \in 1..Len(UpperCase) : UpperCase[i] = c
    THEN LowerCase[CHOOSE i \in 1..Len(UpperCase) : UpperCase[i] = c]
    ELSE c

to_lower_copy(s) == [i \in 1..Len(s) |-> tolower(s[i])]

\* A type-token test that compares the spelling as given.
is_export_type_token_exact(exporter) == exporter \in {T_asm, T_c, T_bin}

is_export_type_token(exporter) ==
    to_lower_copy(exporter) \in {T_asm, T_c, T_bin}

\* std::filesystem::path::extension of a path string.
path_extension(p) ==
    LET from == SetMax({i \in 1..Len(p) : p[i] = "/"}, 0) + 1
        name == SubSeq(p, from, Len(p))
        dot == SetMax({i \in 1..Len(name) : name[i] = "."}, 0)
    IN  IF name = <<".">> \/ name = <<".", ".">> \/ dot <= 1 THEN <<>>
        ELSE SubSeq(name, dot, Len(name))

ErrorOf(text, arg) == [text |-> text, arg |-> arg]

\* resolve_extractor_plugin: [plugin_name, error].
resolve_extractor_plugin(o, input_path) ==
    IF o.extractor # <<>> THEN [plugin_name |-> o.extractor, error |-> NoError]
    ELSE IF to_lower_copy(path_extension(input_path)) \in {X_ttf, X_otf}
    THEN [plugin_name |-> N_ttf_extractor, error |-> NoError]
    ELSE IF to_lower_copy(path_extension(input_path))
               \in {X_png, X_jpg, X_jpeg, X_bmp, X_gif, X_tga, X_webp}
    THEN [plugin_name |-> N_image_extractor, error |-> NoError]
    ELSE [plugin_name |-> <<>>,
          error |-> ErrorOf("cannot infer extractor from input extension",
                            to_lower_copy(path_extension(input_path)))]

\* resolve_exporter_plugin: [plugin_name, error].
resolve_exporter_plugin(o) ==
    IF o.exporter = <<>> \/ ~is_export_type_token(o.exporter)
    THEN [error |-> NoError,
          plugin_name |->
              IF to_lower_copy(o.exporter) = T_partner_asm
              THEN N_partner_sdcc_asm_tiny
              ELSE IF to_lower_copy(o.exporter) = T_partner_bitmap_asm
              THEN N_partner_sdcc_asm_bitmap
              ELSE IF to_lower_copy(o.exporter)
                         \in {T_partner_sdcc_asm_tiny_dashed, T_partner_tiny_asm}
              THEN N_partner_sdcc_asm_tiny
              ELSE IF to_lower_copy(o.exporter)
                         \in {T_partner_sdcc_asm_bitmap_dashed, T_partner_bitmap_asm_sdcc}
              THEN N_partner_sdcc_asm_bitmap
              ELSE o.exporter]
    ELSE IF to_lower_copy(o.exporter) = T_asm
    THEN [plugin_name |-> <<>>, error |-> ErrorOf("exporter 'asm' is ambiguous", <<>>)]
    ELSE IF to_lower_copy(o.exporter) = T_bin
    THEN [plugin_name |-> N_raw_bin, error |-> NoError]
    ELSE IF to_lower_copy(o.exporter) = T_c
    THEN [plugin_name |-> N_raw_c, error |-> NoError]
    ELSE [plugin_name |-> <<>>,
          error |-> ErrorOf("unsupported exporter type", to_lower_copy(o.exporter))]

EnvStr(s) == [null |-> FALSE, s |-> s]

SNATCH_DEFAULT_PLUGIN_DIR == "/usr/libexec/snatch/plugins"

\* The plugin search path main builds.
plugin_dirs_of(o, e) ==
    (IF o.plugin_dir # "" THEN <<o.plugin_dir>> ELSE <<>>)
    \o (IF ~e.SNATCH_PLUGIN_DIR.null /\ e.SNATCH_PLUGIN_DIR.s # ""
        THEN <<e.SNATCH_PLUGIN_DIR.s>> ELSE <<>>)
    \o <<SNATCH_DEFAULT_PLUGIN_DIR>>
    \o (IF ~e.HOME.null /\ e.HOME.s # ""
        THEN <<e.HOME.s \o "/.local/lib/snatch/plugins">> ELSE <<>>)

\* The names main asks the host to load.
requested_plugins_of(extractor_plugin_name, transformer_name, exporter_plugin_name) ==
    LET named == (IF extractor_plugin_name # <<>> THEN <<extractor_plugin_name>> ELSE <<>>)
                 \o (IF transformer_name # <<>> THEN <<transformer_name>> ELSE <<>>)
    IN  IF exporter_plugin_name # <<>> /\ exporter_plugin_name \notin SeqToSet(named)
        THEN Append(named, exporter_plugin_name)
        ELSE named

\* !opt || opt->empty() on the optional a lookup returned.
path_missing_nullopt_only(value_opt) == value_opt = <<>>

path_missing(value_opt) == value_opt = <<>> \/ value_opt[1] = <<>>

\* The exit code of a run that a failing stage ends.
stage_failure_exit_always_5(stage) == 5

stage_failure_exit(stage) == IF stage = "extract" THEN 4 ELSE 5

\* The lookups of main for the three stages: the indices found (0: nullptr)
\* and the error of the first lookup that fails.
lookup_extractor(plugins, name) ==
    IF name # <<>> THEN find_by_name_and_kind(plugins, name, SNATCH_PLUGIN_KIND_EXTRACTOR)
    ELSE find_first_by_kind(plugins, SNATCH_PLUGIN_KIND_EXTRACTOR)

lookup_transformer(plugins, name) ==
    IF name # <<>> THEN find_by_name_and_kind(plugins, name, SNATCH_PLUGIN_KIND_TRANSFORMER)
    ELSE 0

lookup_exporter(plugins, name) ==
    IF name # <<>> THEN find_by_name_and_kind(plugins, name, SNATCH_PLUGIN_KIND_EXPORTER)
    ELSE find_first_by_kind(plugins, SNATCH_PLUGIN_KIND_EXPORTER)

lookup_error(plugins, extractor_name, transformer_name, exporter_name) ==
    IF lookup_extractor(plugins, extractor_name) = 0
    THEN IF extractor_name # <<>>
         THEN ErrorOf("extractor plugin not found", extractor_name)
         ELSE ErrorOf("no extractor plugins found in search path", <<>>)
    ELSE IF transformer_name # <<>> /\ lookup_transformer(plugins, transformer_name) = 0
    THEN ErrorOf("transformer plugin not found", transformer_name)
    ELSE IF lookup_exporter(plugins, exporter_name) = 0
    THEN IF exporter_name # <<>>
         THEN ErrorOf("exporter plugin not found", exporter_name)
         ELSE ErrorOf("no exporter plugins found in search path", <<>>)
    ELSE NoError

-----------------------------------------------------------------------------
(* The orchestrator's specification: one run of main over a file system    *)
(* and an environment.  The stage functions are the callbacks of the       *)
(* plugins found; their return codes and error texts are inputs.           *)

EP_ttf == <<"i", "n", "p", "u", "t", "=", "a", ".", "t", "t", "f">>

EP_empty_value == <<"i", "n", "p", "u", "t", "=">>

EP_bare_key == <<"i", "n", "p", "u", "t">>

EP_spaced_png == <<" ", "i", "n", "p", "u", "t", " ", "=", " ", "A", ".", "P", "N", "G", " ", ",", " ", "f", "i", "r", "s", "t", "_", "a", "s", "c", "i", "i", "=", "6", "5">>

EP_empty_then_ttf == <<"i", "n", "p", "u", "t", "=", ",", "i", "n", "p", "u", "t", "=", "a", ".", "t", "t", "f">>

EP_unknown_extension == <<"c", "o", "l", "u", "m", "n", "s", "=", "1", "6", ",", "i", "n", "p", "u", "t", "=", "f", ".", "x", "y", "z">>

TP_repeated ==
    <<" ", "o", "p", "t", "i", "m", "i", "z", "e", " ", "=", " ", "0", " ", ",">>
    \o <<"v", "e", "r", "b", "o", "s", "e", " ", ",", " ", "o", "p", "t", "i", "m", "i", "z", "e", "=", "1">>

XP_bin == <<"o", "u", "t", "p", "u", "t", "=", "o", ".", "b", "i", "n">>

XP_blank_value == <<"o", "u", "t", "p", "u", "t", "=", " ">>

XP_proportional == <<"f", "o", "n", "t", "_", "m", "o", "d", "e", "=", "p", "r", "o", "p", "o", "r", "t", "i", "o", "n", "a", "l", ",", " ", "o", "u", "t", "p", "u", "t", " ", "=", " ", "o", ".", "b", "i", "n">>

EP_two_inputs ==
    <<"i", "n", "p", "u", "t", "=", "a", ".", "p", "n", "g", ",">>
    \o <<"i", "n", "p", "u", "t", "=", "b", ".", "t", "t", "f">>

ExtractorParameters ==
    {<<>>, EP_ttf, EP_empty_value, EP_bare_key, EP_spaced_png, EP_empty_then_ttf,
     EP_unknown_extension, EP_two_inputs}

ExporterParameters == {<<>>, XP_bin, XP_blank_value, XP_proportional}

\* What a successful command-line parse may leave in snatch_options.
ParsedOptions ==
    [plugin_dir : {"", "d1"},
     extractor : {<<>>, N_ttf_extractor, N_raw_bin},
     extractor_parameters : ExtractorParameters,
     transformer : {<<>>, N_partner_tiny_transform, N_raw_bin},
     transformer_parameters : {TP_repeated},
     exporter : {<<>>, T_asm, <<"B", "i", "n">>, N_raw_bin},
     exporter_parameters : ExporterParameters]

CliErrorCodes == {1}

HomePluginDir == "/home/u/.local/lib/snatch/plugins"

Environments ==
    [SNATCH_PLUGIN_DIR : {NullEnv, EnvStr(""), EnvStr("d1")},
     HOME : {NullEnv, EnvStr("/home/u")}]

\* File systems: a complete installation in the default directory and a
\* first directory that is empty, holds only some of the plugins, or holds
\* a raw_bin.so that is a transformer; and a system without any plugin.
MainFileSystems ==
    {[d \in {"d1", SNATCH_DEFAULT_PLUGIN_DIR} |->
         IF d = "d1" THEN first
         ELSE <<F_ttf_extractor, F_partner_tiny_transform, F_raw_bin>>] :
        first \in {<<>>, <<F_ttf_extractor>>,
                   <<F_raw_bin_transformer, F_ttf_extractor>>}}
    \cup {[d \in {"d1", HomePluginDir} |->
              IF d = "d1" THEN <<>> ELSE <<F_raw_bin, F_ttf_extractor>>],
          [d \in {"d1"} |-> <<>>]}

Init ==
    /\ main_pc = "start"
    /\ opt = DefaultOptions
    /\ env \in Environments
    /\ locals = NoLocals
    /\ calls = <<>>
    /\ main_errbuf = ""
    /\ exit_code = -1
    /\ err_out = NoError
    /\ fs \in MainFileSystems
    /\ plugins_ = <<>>
    /\ dl_refs = [p \in AllPaths(fs) |-> 0]
    /\ host_pc = "off"
    /\ host_loads = 0
    /\ host_last = [op |-> "none", dir |-> ""]
    /\ dl_closed = <<>>
    /\ RouteIdle
    /\ CodecIdle
    /\ UtilIdle

\* return code; with message msg on std::cerr, before pm is constructed.
ReturnEarly(code, msg) ==
    /\ exit_code' = code
    /\ err_out' = msg
    /\ main_pc' = "exit"

\* return code; once pm is constructed: the destructor of pm runs.
ReturnAndDestroy(code, msg, hs) ==
    /\ exit_code' = code
    /\ err_out' = msg
    /\ main_pc' = "exit"
    /\ plugins_' = plugin_manager_dtor(hs).plugins
    /\ dl_refs' = plugin_manager_dtor(hs).refs
    /\ dl_closed' = plugin_manager_dtor(hs).closed
    /\ host_pc' = "destroyed"

\* cli_parser::parse and the test of its result.
MainParse ==
    /\ main_pc = "start"
    /\ \/ \E rc \in CliErrorCodes :
             /\ ReturnEarly(rc, ErrorOf("command line error", <<>>))
             /\ opt' = opt
       \/ \E o \in ParsedOptions :
             /\ opt' = o
             /\ main_pc' = "parsed"
             /\ UNCHANGED <<exit_code, err_out>>
    /\ UNCHANGED <<env, locals, calls, main_errbuf, hostVars, routeVars, codecVars, utilVars>>

\* The mandatory path parameters and the resolution of the extractor and
\* exporter names.
MainResolve ==
    /\ main_pc = "parsed"
    /\ LET input_path_opt == find_kv_value(opt.extractor_parameters, K_input)
           output_path_opt == find_kv_value(opt.exporter_parameters, K_output)
       IN  IF path_missing(input_path_opt)
           THEN /\ ReturnEarly(3, ErrorOf("extractor input path is required", <<>>))
                /\ locals' = locals
           ELSE IF path_missing(output_path_opt)
           THEN /\ ReturnEarly(3, ErrorOf("exporter output path is required", <<>>))
                /\ locals' = locals
           ELSE IF resolve_extractor_plugin(opt, input_path_opt[1]).error # NoError
           THEN /\ ReturnEarly(3, resolve_extractor_plugin(opt, input_path_opt[1]).error)
                /\ locals' = locals
           ELSE IF resolve_exporter_plugin(opt).error # NoError
           THEN /\ ReturnEarly(3, resolve_exporter_plugin(opt).error)
                /\ locals' = locals
           ELSE /\ locals' = [locals EXCEPT
                       !.input_path = input_path_opt[1],
                       !.output_path = output_path_opt[1],
                       !.extractor_plugin_name =
                           resolve_extractor_plugin(opt, input_path_opt[1]).plugin_name,
                       !.exporter_plugin_name = resolve_exporter_plugin(opt).plugin_name]
                /\ main_pc' = "resolved"
                /\ UNCHANGED <<exit_code, err_out>>
    /\ UNCHANGED <<opt, env, calls, main_errbuf, hostVars, routeVars, codecVars, utilVars>>

\* The host after main's load call.
main_load(hs, fsys, dirs, names) ==
    IF names # <<>> THEN load_named_from_dirs_in_order(hs, fsys, dirs, names)
    ELSE load_from_dirs_in_order(hs, fsys, dirs)

\* plugin_manager pm, the search path, the load, the test for no plugins.
MainLoadPlugins ==
    /\ main_pc = "resolved"
    /\ LET hs == main_load([plugins |-> <<>>, refs |-> dl_refs], fs,
                           plugin_dirs_of(opt, env),
                           requested_plugins_of(locals.extractor_plugin_name,
                                                opt.transformer,
                                                locals.exporter_plugin_name))
       IN  IF hs.plugins = <<>>
           THEN ReturnAndDestroy(3, ErrorOf("no plugins found in search path", <<>>), hs)
           ELSE /\ plugins_' = hs.plugins
                /\ dl_refs' = hs.refs
                /\ host_pc' = "live"
                /\ dl_closed' = dl_closed
                /\ main_pc' = "loaded"
                /\ UNCHANGED <<exit_code, err_out>>
    /\ host_loads' = host_loads + 1
    /\ host_last' = [op |-> "main_load", dir |-> ""]
    /\ UNCHANGED <<opt, env, locals, calls, main_errbuf, fs, routeVars, codecVars, utilVars>>

\* The lookups of the extractor, the transformer and the exporter.
MainLookup ==
    /\ main_pc = "loaded"
    /\ LET err == lookup_error(plugins_, locals.extractor_plugin_name, opt.transformer,
                               locals.exporter_plugin_name)
       IN  IF err # NoError
           THEN /\ ReturnAndDestroy(3, err, Host)
                /\ locals' = locals
           ELSE /\ locals' = [locals EXCEPT
                       !.extractor = lookup_extractor(plugins_, locals.extractor_plugin_name),
                       !.transformer = lookup_transformer(plugins_, opt.transformer),
                       !.plugin = lookup_exporter(plugins_, locals.exporter_plugin_name)]
                /\ main_pc' = "ready"
                /\ UNCHANGED <<exit_code, err_out, plugins_, dl_refs, host_pc, dl_closed>>
    /\ UNCHANGED <<opt, env, calls, main_errbuf, fs, host_loads, host_last, routeVars, codecVars, utilVars>>

StageCall(stage, index, path, options, rc) ==
    [stage |-> stage, plugin |-> index, kind |-> plugins_[index].info.kind,
     path |-> path, options |-> options, rc |-> rc]

StageFailed(stage, rc, text) ==
    ErrorOf(stage \o " failed", <<rc, text>>)

\* The extractor call and the test of its return code.
MainExtract ==
    /\ main_pc = "ready"
    /\ \E rc \in {0, 1}, text \in {"", "extract error"} :
          /\ calls' = Append(calls,
                 StageCall("extract", locals.extractor, locals.input_path,
                           append_kv_params(opt.extractor_parameters, {K_input}), rc))
          /\ main_errbuf' = text
          /\ IF rc # 0
             THEN ReturnAndDestroy(stage_failure_exit("extract"),
                                   StageFailed("extractor", rc, text), Host)
             ELSE /\ main_pc' = "extracted"
                  /\ UNCHANGED <<exit_code, err_out, plugins_, dl_refs, host_pc, dl_closed>>
    /\ UNCHANGED <<opt, env, locals, fs, host_loads, host_last, routeVars, codecVars, utilVars>>

\* The transformer call, made when a transformer was named.
MainTransform ==
    /\ main_pc = "extracted"
    /\ locals.transformer # 0
    /\ \E rc \in {0, 32}, text \in {main_errbuf, "transform error"} :
          /\ calls' = Append(calls,
                 StageCall("transform", locals.transformer, <<>>,
                           append_kv_params(opt.transformer_parameters, {}), rc))
          /\ main_errbuf' = text
          /\ IF rc # 0
             THEN ReturnAndDestroy(stage_failure_exit("transform"),
                                   StageFailed("transformer", rc, text), Host)
             ELSE /\ main_pc' = "transformed"
                  /\ UNCHANGED <<exit_code, err_out, plugins_, dl_refs, host_pc, dl_closed>>
    /\ UNCHANGED <<opt, env, locals, fs, host_loads, host_last, routeVars, codecVars, utilVars>>

\* The exporter call (the error buffer is cleared first) and the end of
\* main.
MainExport ==
    /\ \/ main_pc = "extracted" /\ locals.transformer = 0
       \/ main_pc = "transformed"
    /\ \E rc \in {0, 2}, text \in {"", "export error"} :
          /\ calls' = Append(calls,
                 StageCall("export", locals.plugin, locals.output_path,
                           append_kv_params(opt.exporter_parameters, {K_output}), rc))
          /\ main_errbuf' = text
          /\ IF rc # 0
             THEN ReturnAndDestroy(stage_failure_exit("export"),
                                   StageFailed("exporter", rc, text), Host)
             ELSE ReturnAndDestroy(0, NoError, Host)
    /\ UNCHANGED <<opt, env, locals, fs, host_loads, host_last, routeVars, codecVars, utilVars>>

Next ==
    \/ MainParse
    \/ MainResolve
    \/ MainLoadPlugins
    \/ MainLookup
    \/ MainExtract
    \/ MainTransform
    \/ MainExport

Spec == Init /\ [][Next]_vars

-----------------------------------------------------------------------------
(* The helper specification: one call of a helper function of the plugins  *)
(* or of the orchestrator on arguments drawn from small sets.              *)

MaxKvLen == 3

KvKeys == {K_optimize, K_font_mode}

KvValues == {<<>>, <<"0">>, <<"1">>}

\* Option arrays with repeated keys.
KvLists == SeqsUpTo([key : KvKeys, value : KvValues], MaxKvLen)

\* Exporter tokens: the type tokens and the aliases in several spellings,
\* concrete plugin names, near misses of the type tokens.
ExporterTokens ==
    {<<>>, T_asm, T_bin, T_c, N_raw_bin, N_raw_c, N_partner_sdcc_asm_tiny,
     T_partner_asm, T_partner_bitmap_asm, T_partner_sdcc_asm_tiny_dashed,
     T_partner_tiny_asm, T_partner_sdcc_asm_bitmap_dashed, T_partner_bitmap_asm_sdcc,
     <<"A", "S", "M">>, <<"A", "s", "m">>, <<"B", "I", "N">>, <<"B", "i", "n">>, <<"C">>,
     <<"P", "a", "r", "t", "n", "e", "r", "_", "A", "S", "M">>,
     <<"P", "A", "R", "T", "N", "E", "R", "-", "S", "D", "C", "C", "-", "A", "S", "M", "-", "B", "I", "T", "M", "A", "P">>,
     <<"R", "a", "w", "_", "B", "i", "n">>, <<"a", "s", "m", "x">>, <<" ", "b", "i", "n">>, <<"c", "c">>}

\* The glyph bitmaps bounds is called on: up to MaxBitmapHeight rows of one
\* or two bytes, with a row's unused bits clear or set, and the glyphs bounds
\* does not read (null data, zero width or height, non-positive stride).
MaxBitmapHeight == 2

BitmapWidths == {0, 3, 8, 9}

BitmapStrides == {-1, 0, 1, 2}

RowBytes == {0, 1, 32, 128, 255}

BitmapOf(w, h, stride, has_data, data) ==
    [codepoint |-> 65, width |-> w, height |-> h, bearing_y |-> h,
     stride_bytes |-> stride, has_data |-> has_data, data |-> data]

\* The buffers of a glyph of h rows of stride bytes; none behind a null
\* pointer.
BitmapData(h, stride, has_data) ==
    [1..(IF has_data /\ stride > 0 THEN stride * h ELSE 0) -> RowBytes]

InitUtil ==
    /\ UtilIdle
    /\ RouteIdle
    /\ CodecIdle
    /\ HostIdle
    /\ MainIdle

\* plugin_kv_view{items, count}.get(key)
UtilKvGet ==
    /\ util_call = NoCall
    /\ \E items \in KvLists, key \in KvKeys :
          /\ util_call' = [fn |-> "plugin_kv_view::get", items |-> items, key |-> key]
          /\ util_result' = plugin_kv_view_get(items, key)
    /\ UNCHANGED <<routeVars, codecVars, hostVars, mainVars>>

\* resolve_exporter_plugin(opt) for an opt whose exporter is token
UtilResolveExporter ==
    /\ util_call = NoCall
    /\ \E token \in ExporterTokens :
          /\ util_call' = [fn |-> "resolve_exporter_plugin", exporter |-> token]
          /\ util_result' =
                 resolve_exporter_plugin([DefaultOptions EXCEPT !.exporter = token])
    /\ UNCHANGED <<routeVars, codecVars, hostVars, mainVars>>

\* The options of a raw_c run.
RawCOptions ==
    {<<>>,
     <<Opt(K_bytes_per_line, <<"0">>)>>,
     <<Opt(K_bytes_per_row, <<"2">>), Opt(K_uppercase_hex, <<"1">>)>>,
     <<Opt(K_rows, <<"1">>), Opt(K_hex_prefix, <<"0">>)>>,
     <<Opt(K_font_mode, K_proportional)>>}

OutputPathC == <<"o", ".", "c">>

\* The fonts an exporter is handed: a font as extracted, or as one of the
\* Partner transformers left it.
ExportedFonts ==
    ExtractedFonts
    \cup {partner_tiny_transform(f, <<>>).font :
             f \in {e \in ExtractedFonts : partner_tiny_transform(e, <<>>).rc = 0}}
    \cup {partner_bitmap_transform(f, <<>>).font :
             f \in {e \in ExtractedFonts : partner_bitmap_transform(e, <<>>).rc = 0}}

\* export_raw_c and export_raw_bin, each called on the same font with the
\* same options
UtilExportBytes ==
    /\ util_call = NoCall
    /\ \E font \in ExportedFonts, options \in RawCOptions :
          /\ util_call' = [fn |-> "export_raw_c, export_raw_bin", font |-> font,
                           options |-> options]
          /\ util_result' = [raw_c |-> export_raw_c(font, OutputPathC, options, Errbuf(""), "ok"),
                             raw_bin |-> export_raw_bin(font, OutputPath, options, Errbuf(""), "ok")]
    /\ UNCHANGED <<routeVars, codecVars, hostVars, mainVars>>

\* The fonts with a Partner Tiny payload an exporter is handed: a font as
\* partner_tiny_transform left it, or with the range a later transformer gave
\* it.
TinyFonts ==
    LET made == {partner_tiny_transform(f, <<>>).font :
                    f \in {e \in ExtractedFonts : partner_tiny_transform(e, <<>>).rc = 0}}
    IN  made \cup {[f EXCEPT !.last_codepoint = @ + 1] : f \in made}
             \cup {[f EXCEPT !.first_codepoint = -1] : f \in made}

TinyExportOptions == ExportOptions \cup {<<Opt(K_letter_spacing, <<"1", "6">>)>>}

\* export_raw_bin called through the exporter ABI on a font with a Partner
\* Tiny payload, with an error buffer or without one
UtilExportTiny ==
    /\ util_call = NoCall
    /\ \E font \in TinyFonts, options \in TinyExportOptions,
          errbuf \in {Errbuf(""), NullErrbuf}, io \in {"ok", "open_fails", "write_fails"} :
          /\ util_call' = [fn |-> "export_raw_bin", font |-> font, options |-> options,
                           errbuf |-> errbuf]
          /\ util_result' = export_raw_bin(font, OutputPath, options, errbuf, io)
    /\ UNCHANGED <<routeVars, codecVars, hostVars, mainVars>>

\* The routes total_cost is called on: walks of up to MaxCostSteps steps
\* from (0, 0), each step one pixel right, one pixel down, two pixels right,
\* or one pixel right onto a pixel of the other colour.
MaxCostSteps == 6

CostSteps ==
    {[dx |-> 1, dy |-> 0, flip |-> 0], [dx |-> 0, dy |-> 1, flip |-> 0],
     [dx |-> 2, dy |-> 0, flip |-> 0], [dx |-> 1, dy |-> 0, flip |-> 1]}

RouteOfSteps(steps) ==
    [k \in 1..(Len(steps) + 1) |->
        [x |-> SumSizes([j \in 1..Len(steps) |-> steps[j].dx], 1, k - 1),
         y |-> SumSizes([j \in 1..Len(steps) |-> steps[j].dy], 1, k - 1),
         color |-> 1 + (SumSizes([j \in 1..Len(steps) |-> steps[j].flip], 1, k - 1) % 2)]]

\* glyph_route_cost_model::total_cost of one route
UtilTotalCost ==
    /\ util_call = NoCall
    /\ \E route_in \in {<<>>} \cup {RouteOfSteps(steps) :
                                       steps \in SeqsUpTo(CostSteps, MaxCostSteps)} :
          /\ util_call' = [fn |-> "glyph_route_cost_model::total_cost", route |-> route_in]
          /\ util_result' = total_cost(route_in)
    /\ UNCHANGED <<routeVars, codecVars, hostVars, mainVars>>

\* The moves vectorize_route hands to encode_tiny_move.
TinyMoves == [dx : -3..3, dy : -3..3, color : 0..3]

\* encode_tiny_move of one move, and the raster decoder's decoding of the
\* byte
UtilTinyMove ==
    /\ util_call = NoCall
    /\ \E move \in TinyMoves :
          /\ util_call' = [fn |-> "encode_tiny_move", move |-> move]
          /\ util_result' = [byte |-> encode_tiny_move(move),
                             decoded |-> decode_tiny_move(encode_tiny_move(move))]
    /\ UNCHANGED <<routeVars, codecVars, hostVars, mainVars>>

\* glyph_bitmap_analyzer::bounds, leftmost_set_bit and rightmost_set_bit of
\* one glyph
UtilBounds ==
    /\ util_call = NoCall
    /\ \E w \in BitmapWidths, h \in 0..MaxBitmapHeight, stride \in BitmapStrides,
          has_data \in BOOLEAN :
          /\ stride <= 0 \/ stride * 8 >= w
          /\ \E data \in BitmapData(h, stride, has_data) :
                LET g == BitmapOf(w, h, stride, has_data, data)
                IN  /\ util_call' = [fn |-> "glyph_bitmap_analyzer::bounds", glyph |-> g]
                    /\ util_result' = [bounds |-> bounds(g),
                                       leftmost_set_bit |-> leftmost_set_bit(g),
                                       rightmost_set_bit |-> rightmost_set_bit(g)]
    /\ UNCHANGED <<routeVars, codecVars, hostVars, mainVars>>

NextUtil ==
    \/ UtilKvGet
    \/ UtilResolveExporter
    \/ UtilBounds
    \/ UtilExportBytes
    \/ UtilExportTiny
    \/ UtilTotalCost
    \/ UtilTinyMove

SpecUtil == InitUtil /\ [][NextUtil]_vars

-----------------------------------------------------------------------------
(* The option arrays of main: add_kv and append_kv_params over the memory  *)
(* of the backing storage.  A std::vector is [capacity, block, items]:     *)
(* block numbers the allocation its elements live in, a new one at every   *)
(* reallocation.  A std::string of up to sso_capacity characters keeps     *)
(* them inside the string object, so inside the vector's block; a longer   *)
(* one keeps them in a heap buffer that a move hands on to the new string. *)
(* A const char* is [inline, block, index, part]: the characters of string *)
(* part of element index, inside the vector's block or in the string's     *)
(* heap buffer.                                                            *)

\* extract_kv_storage.reserve(16), export_kv_storage.reserve(16),
\* transform_kv_storage.reserve(16)
kv_reserve == 16

\* The longest string held inside a std::string object (libstdc++).
sso_capacity == 15

\* The most tokens of a parameter string.
MaxParams == 17

EmptyVector == [capacity |-> 0, block |-> 0, items |-> <<>>]

\* std::vector::reserve
reserve(v, n) ==
    IF n > v.capacity THEN [v EXCEPT !.capacity = n, !.block = @ + 1] ELSE v

\* std::vector::push_back: a full vector moves its elements to a larger
\* block and frees the old one.
push_back(v, item) ==
    IF Len(v.items) < v.capacity THEN [v EXCEPT !.items = Append(@, item)]
    ELSE [capacity |-> Max2(1, 2 * v.capacity), block |-> v.block + 1,
          items |-> Append(v.items, item)]

\* pair[part].c_str() of the element index of v
c_str(v, index, part) ==
    [inline |-> Len(v.items[index][part]) <= sso_capacity,
     block |-> IF Len(v.items[index][part]) <= sso_capacity THEN v.block ELSE 0,
     index |-> index, part |-> part]

\* add_kv: [storage, out].
add_kv(storage, out, key, value) ==
    LET pushed == push_back(storage, <<key, value>>)
        back == Len(pushed.items)
    IN  [storage |-> pushed,
         out |-> Append(out, [key |-> c_str(pushed, back, 1),
                              value |-> c_str(pushed, back, 2)])]

\* The pointer refers to live memory: a heap buffer its string still owns,
\* or characters inside the block the vector has now.
live(ptr, v) == ~ptr.inline \/ ptr.block = v.block

\* The characters a stage reads through a pointer: those of the string it
\* refers to, or whatever the freed block holds now.
deref(ptr, v, freed) == IF live(ptr, v) THEN v.items[ptr.index][ptr.part] ELSE freed

\* n copies of a character.
Chars(c, n) == [i \in 1..n |-> c]

\* Tokens with a key and a value held inside the string object, and with a
\* key and a value too long for that.
ShortToken == <<"a", "=", "1">>

LongToken == Chars("k", sso_capacity + 8) \o <<"=">> \o Chars("v", sso_capacity + 8)

\* The parameter string of n tokens: all short, all long, or in turn.
ParametersOf(n, kind) ==
    Flatten([i \in 1..n |->
        (IF i > 1 THEN <<",">> ELSE <<>>)
        \o (IF kind = "short" \/ (kind = "mixed" /\ i % 2 = 1) THEN ShortToken
            ELSE LongToken)])

ManyParameters ==
    {ParametersOf(n, kind) : n \in 0..MaxParams, kind \in {"short", "long", "mixed"}}
    \cup {EP_ttf \o <<",">> \o ParametersOf(n, "short") : n \in 1..MaxParams}

\* What a read of freed memory may find: the old characters or others.
FreedChars(old) == {old, <<"?">>}

\* main up to a stage's append_kv_params: the storage and the option array
\* reserved, the parameter string split into the pairs to add.
OptionsReserve ==
    /\ util_call = NoCall
    /\ \E raw \in ManyParameters, skip_keys \in {{}, {K_input}} :
          /\ util_call' = [fn |-> "append_kv_params", raw |-> raw,
                           pairs |-> append_kv_params(raw, skip_keys),
                           pc |-> "appending"]
          /\ util_result' = [storage |-> reserve(EmptyVector, kv_reserve),
                             out |-> <<>>]
    /\ UNCHANGED <<routeVars, codecVars, hostVars, mainVars>>

\* One add_kv of append_kv_params.
OptionsAddKv ==
    /\ util_call.fn = "append_kv_params"
    /\ util_call.pc = "appending"
    /\ Len(util_result.out) < Len(util_call.pairs)
    /\ LET pair == util_call.pairs[Len(util_result.out) + 1]
       IN  util_result' = add_kv(util_result.storage, util_result.out,
                                 pair.key, pair.value)
    /\ UNCHANGED <<util_call, routeVars, codecVars, hostVars, mainVars>>

\* main calls the stage with options.data() and options.size().
OptionsInvoke ==
    /\ util_call.fn = "append_kv_params"
    /\ util_call.pc = "appending"
    /\ Len(util_result.out) = Len(util_call.pairs)
    /\ util_call' = [util_call EXCEPT !.pc = "invoked"]
    /\ UNCHANGED <<util_result, routeVars, codecVars, hostVars, mainVars>>

\* The stage reads the key and the value of one entry of the array.
OptionsRead ==
    /\ util_call.fn = "append_kv_params"
    /\ util_call.pc = "invoked"
    /\ \E i \in 1..Len(util_result.out) :
          \E k \in FreedChars(util_call.pairs[i].key),
             v \in FreedChars(util_call.pairs[i].value) :
              /\ util_call' = [util_call EXCEPT !.pc = "read"]
              /\ util_result' =
                     [storage |-> util_result.storage, out |-> util_result.out,
                      index |-> i,
                      key |-> deref(util_result.out[i].key, util_result.storage, k),
                      value |-> deref(util_result.out[i].value, util_result.storage, v)]
    /\ UNCHANGED <<routeVars, codecVars, hostVars, mainVars>>

NextOptions ==
    \/ OptionsReserve
    \/ OptionsAddKv
    \/ OptionsInvoke
    \/ OptionsRead

SpecOptions == InitUtil /\ [][NextOptions]_vars

-----------------------------------------------------------------------------
(* The specification of the baseline fonts: partner_bitmap_transform on    *)
(* fonts whose glyphs sit on the baseline, hang below it or float above    *)
(* it.                                                                     *)

\* A glyph on the baseline, one that descends below it, one that floats
\* above it (an apostrophe) and one that hangs below it (an underscore).
BaselineShapes ==
    {[w |-> 2, h |-> 2, by |-> 2, px |-> {<<0, 0>>, <<1, 1>>}],
     [w |-> 1, h |-> 2, by |-> 1, px |-> {<<0, 1>>}],
     [w |-> 1, h |-> 1, by |-> 3, px |-> {<<0, 0>>}],
     [w |-> 2, h |-> 1, by |-> -1, px |-> {<<1, 0>>}]}

BaselineRanges == {<<65, 65>>, <<65, 66>>, <<64, 66>>}

BaselineFonts ==
    {FontOf(range, [i \in 1..Len(gs) |-> GlyphOf(gs[i][1], gs[i][2])]) :
        range \in BaselineRanges,
        gs \in {q \in SeqsUpTo(FontCodepoints \X BaselineShapes, 2) :
                   \A i, j \in 1..Len(q) : i # j => q[i][1] # q[j][1]}}

InitBaseline ==
    /\ plugin_font \in BaselineFonts
    /\ src_font = plugin_font
    /\ transformer = "none"
    /\ stage_rc = 0
    /\ stage_err = ""
    /\ out_file = <<>>
    /\ codec_pc = "extracted"
    /\ RouteIdle
    /\ HostIdle
    /\ MainIdle
    /\ UtilIdle

NextBaseline == BitmapTransform

SpecBaseline == InitBaseline /\ [][NextBaseline]_vars

-----------------------------------------------------------------------------
(* The specification of the raster decoder's loops, each applied on its    *)
(* own: the move loop of one glyph record on a short list of move bytes.   *)

\* The most moves before the move looked at.
MaxPriorMoves == 1

\* width and height of the glyph records
RasterDims == {<<3, 2>>, <<9, 3>>}

\* The start cursors of the records, inside and outside the glyph.
RasterOrigins(gw, gh) ==
    {[x |-> 0, y |-> 0], [x |-> 1, y |-> 1], [x |-> gw - 1, y |-> gh - 1],
     [x |-> gw + 1, y |-> 0], [x |-> 255, y |-> 255]}

\* The move bytes before the move looked at: a line set to the right and
\* down, a line toggled to the left, a pen-up move upwards and a diagonal
\* cleared.
PriorMoves ==
    {encode_tiny_move([dx |-> 2, dy |-> 1, color |-> 1]),
     encode_tiny_move([dx |-> -3, dy |-> 0, color |-> 3]),
     encode_tiny_move([dx |-> 0, dy |-> -2, color |-> 0]),
     encode_tiny_move([dx |-> 3, dy |-> 3, color |-> 2])}

\* The move loop of one glyph record up to its last move and over it.
RasterMove ==
    /\ util_call = NoCall
    /\ \E dims \in RasterDims, prior \in SeqsUpTo(PriorMoves, MaxPriorMoves),
          mv \in 0..255 :
          \E origin \in RasterOrigins(dims[1], dims[2]) :
              LET gw == dims[1]
                  gh == dims[2]
                  stride == (gw + 7) \div 8
                  zero == [n \in 1..(stride * gh) |-> 0]
                  stream == prior \o <<mv>>
              IN  /\ util_call' = [fn |-> "raster_moves", gw |-> gw, gh |-> gh,
                                   stride |-> stride, stream |-> stream,
                                   origin |-> origin]
                  /\ util_result' =
                         [before |-> raster_moves(stream, 0, Len(stream) - 1, zero,
                                                  stride, gw, gh, origin),
                          after |-> raster_moves(stream, 0, Len(stream), zero,
                                                 stride, gw, gh, origin)]
    /\ UNCHANGED <<routeVars, codecVars, hostVars, mainVars>>

\* The streams raw_bin writes of the Partner Tiny form of a font of one
\* glyph and of fonts of two.
WholeStreams ==
    {serialize_partner_tiny(partner_tiny_transform(f, <<>>).font, <<>>, Errbuf("")).bytes :
        f \in {FontOf(<<65, 65>>, <<GlyphOf(65, sh)>>) : sh \in FewShapes}
              \cup {FontOf(<<65, 66>>, <<GlyphOf(65, sh), GlyphOf(66, sh)>>) :
                        sh \in FewShapes}}

\* The values a damaged byte of a stream of n bytes takes.
DamagedBytes(n) == {0, 1, 255} \cup {v \in (n - 6)..(n + 1) : v >= 0 /\ v <= 255}

\* The input files of partner_tiny_bin_extractor: a whole stream, cut short
\* at any byte, with any one byte damaged.
DamagedStreams ==
    UNION {{SubSeq(w, 1, n) : n \in 0..Len(w)}
           \cup UNION {{[SubSeq(w, 1, n) EXCEPT ![p] = v] :
                            p \in 1..n, v \in DamagedBytes(Len(w))} : n \in 1..Len(w)}
           : w \in WholeStreams}

\* transform_partner_tiny_raster on the font partner_tiny_bin_extractor
\* made of an input file.
RasterDecode ==
    /\ util_call = NoCall
    /\ \E bytes \in DamagedStreams, oob \in {0, 255} :
          LET font == extract_tiny_bin(<<"i">>, TRUE, bytes).font
          IN  /\ util_call' = [fn |-> "transform_partner_tiny_raster", font |-> font,
                               bytes |-> bytes, oob |-> oob]
              /\ util_result' = [r |-> transform_partner_tiny_raster(font),
                                 read |-> raster_reads(font, oob)]
    /\ UNCHANGED <<routeVars, codecVars, hostVars, mainVars>>

NextRaster ==
    \/ RasterMove
    \/ RasterDecode

SpecRaster == InitUtil /\ [][NextRaster]_vars

-----------------------------------------------------------------------------
(* The specification of the large fonts: partner_bitmap_transform on fonts *)
(* of tall glyphs over long codepoint ranges, where the stream comes near  *)
(* the 64 KiB a 16-bit offset addresses.                                   *)

LargeRanges == {<<0, 255>>, <<1, 255>>, <<0, 127>>, <<128, 255>>}

LargeWidths == {8, 16}

LargeHeights == 124..128

\* Fonts of one tall glyph at codepoint 128 over a long range.
LargeFonts ==
    {FontOf(range, <<GlyphOf(128, [w |-> w, h |-> h, by |-> h,
                                   px |-> {<<0, 0>>, <<w - 1, h - 1>>}])>>) :
        range \in LargeRanges, w \in LargeWidths, h \in LargeHeights}

InitLarge ==
    /\ plugin_font \in LargeFonts
    /\ src_font = plugin_font
    /\ transformer = "none"
    /\ stage_rc = 0
    /\ stage_err = ""
    /\ out_file = <<>>
    /\ codec_pc = "extracted"
    /\ RouteIdle
    /\ HostIdle
    /\ MainIdle
    /\ UtilIdle

NextLarge == BitmapTransform

SpecLarge == InitLarge /\ [][NextLarge]_vars

-----------------------------------------------------------------------------
(* Properties of the codec and of the optimizer.                           *)

\* The glyph of codepoint cp in a glyph table, and its foreground pixels
\* (none when the table has no such glyph or the glyph has no bitmap).
PixelsOfCodepoint(font, cp) ==
    LET found == find_glyph_by_codepoint(font.glyphs, cp) IN
    IF found = <<>> THEN {} ELSE PixelSet(found[1])

\* C1: Tiny round-trip.  Whenever partner_tiny_transform accepted the font
\* (with or without route optimization), raw_bin serialized its Partner Tiny
\* stream and partner_tiny_raster_transform decoded that stream, every
\* decoded glyph has exactly the foreground pixels of the input glyph of its
\* codepoint.
C1_TinyRoundTrip ==
    (codec_pc = "decoded" /\ transformer = "tiny") =>
        \A cp \in src_font.first_codepoint..src_font.last_codepoint :
            PixelsOfCodepoint(plugin_font, cp) = PixelsOfCodepoint(src_font, cp)

ImprovingReversalExists(r) ==
    \E i \in 0..(Len(r) - 1) : \E k \in 0..(Len(r) - 1) :
        /\ i < k
        /\ k < Len(r) - 1
        /\ total_cost(two_opt_swap(r, i, k)) < total_cost(r)

\* C2: 2-opt monotonicity.  The optimized route never costs more than the
\* input, and it costs the same exactly when no pair (i, k) with
\* 0 <= i < k < n-1 has a reversal of [i, k] of strictly lower cost.
C2_TwoOptMonotone ==
    route_pc = "done" =>
        /\ total_cost(optimized) <= total_cost(route)
        /\ (total_cost(optimized) = total_cost(route))
              <=> ~ImprovingReversalExists(route)

\* A route of at least four points that 2-opt strictly improved.
C2_Witness ==
    /\ route_pc = "done"
    /\ Len(route) >= 4
    /\ total_cost(optimized) < total_cost(route)

\* The Partner stream the state holds, if any: the bytes partner_bitmap_transform
\* left in user_data, or the file raw_bin wrote from a Partner Tiny font.
HasBitmapStream ==
    /\ transformer = "bitmap"
    /\ codec_pc \in {"transformed", "exported"}
    /\ stage_rc = 0

HasTinyStream == transformer = "tiny" /\ codec_pc = "exported"

PartnerStream == IF HasBitmapStream THEN plugin_font.user_data.bytes ELSE out_file

\* The length of the glyph record at pos: 4 header bytes, then in a Partner
\* Bitmap record as many payload bytes as the header's fourth byte says, in a
\* Partner Tiny record the two origin bytes and the moves it counts, when it
\* counts any.
RecordLen(stream, pos, tiny) ==
    IF tiny THEN (IF At(stream, pos + 3) > 0 THEN 4 + 2 + At(stream, pos + 3) ELSE 4)
    ELSE 4 + At(stream, pos + 3)

\* Walking the records from record i at pos: every table entry is the
\* position its record starts at, every record lies inside the stream, and
\* the last one ends the stream.
RECURSIVE OffsetsConsistent(_, _, _, _, _)
OffsetsConsistent(stream, tiny, n, i, pos) ==
    IF i = n THEN pos = Len(stream)
    ELSE /\ read_u16le(stream, 5 + 2 * i) = pos
         /\ pos + 4 <= Len(stream)
         /\ At(stream, pos) = (IF tiny THEN kGlyphClassTinyBits ELSE 0)
         /\ pos + RecordLen(stream, pos, tiny) <= Len(stream)
         /\ OffsetsConsistent(stream, tiny, n, i + 1, pos + RecordLen(stream, pos, tiny))

\* C3: offset-table consistency.  In every Partner Bitmap stream the
\* transform produced and every Partner Tiny stream raw_bin wrote, with
\* N = last - first + 1, the i-th little-endian u16 offset is 5 + 2N plus the
\* lengths of the records before it, and a glyph record starts there.
C3_OffsetTable ==
    (HasBitmapStream \/ HasTinyStream) =>
        OffsetsConsistent(PartnerStream, HasTinyStream,
            src_font.last_codepoint - src_font.first_codepoint + 1, 0,
            5 + 2 * (src_font.last_codepoint - src_font.first_codepoint + 1))

\* A Partner Tiny file of at least two records whose first record has moves.
C3_Witness ==
    /\ HasTinyStream
    /\ src_font.last_codepoint > src_font.first_codepoint
    /\ At(out_file, read_u16le(out_file, 5) + 3) > 0
    /\ read_u16le(out_file, 7) > read_u16le(out_file, 5) + 4

\* The number of records found by walking the stream from pos to its end
\* (-1 when a record overruns the stream).
RECURSIVE RecordCount(_, _, _)
RecordCount(stream, tiny, pos) ==
    IF pos = Len(stream) THEN 0
    ELSE IF pos + 4 > Len(stream) \/ pos + RecordLen(stream, pos, tiny) > Len(stream)
    THEN -1
    ELSE LET rest == RecordCount(stream, tiny, pos + RecordLen(stream, pos, tiny))
         IN  IF rest < 0 THEN -1 ELSE rest + 1

\* The record of the i-th codepoint of the range is empty: no moves in a
\* Partner Tiny record, no set bit in the payload of a Partner Bitmap record.
EmptyRecord(stream, tiny, i) ==
    LET pos == read_u16le(stream, 5 + 2 * i) IN
    IF tiny THEN At(stream, pos + 3) = 0
    ELSE \A b \in 1..At(stream, pos + 3) : At(stream, pos + 3 + b) = 0

\* C4: codepoint totality.  A Partner serialization of an accepted range
\* [first, last] holds exactly last - first + 1 glyph records, one per
\* codepoint in ascending order: the Partner Tiny font has one glyph per
\* codepoint first, first + 1, ..., last, each stream has that many records,
\* and a codepoint without a glyph in the source font gets an empty record.
C4_CodepointTotality ==
    LET n == src_font.last_codepoint - src_font.first_codepoint + 1 IN
    /\ (transformer = "tiny" /\ codec_pc \in {"transformed", "exported"}) =>
          /\ plugin_font.user_data.glyph_count = n
          /\ Len(plugin_font.user_data.glyphs) = n
          /\ \A i \in 1..n :
                plugin_font.user_data.glyphs[i].codepoint
                    = src_font.first_codepoint + i - 1
    /\ (HasBitmapStream \/ HasTinyStream) =>
          /\ RecordCount(PartnerStream, HasTinyStream, 5 + 2 * n) = n
          /\ \A i \in 0..(n - 1) :
                find_glyph_by_codepoint(src_font.glyphs,
                                        src_font.first_codepoint + i) = <<>>
                    => EmptyRecord(PartnerStream, HasTinyStream, i)

\* A Partner Tiny file for the range 64..66 of a font whose only glyph is
\* that of codepoint 65, which has foreground pixels.
C4_Witness ==
    /\ HasTinyStream
    /\ src_font.first_codepoint = 64
    /\ src_font.last_codepoint = 66
    /\ Len(src_font.glyphs) = 1
    /\ ~EmptyRecord(out_file, TRUE, 1)
    /\ EmptyRecord(out_file, TRUE, 0)

-----------------------------------------------------------------------------
(* Properties of the plugin host.                                          *)

\* The callback a plugin of its kind must provide is present.
KindCallbackPresent(info) ==
    /\ info.kind = SNATCH_PLUGIN_KIND_EXPORTER => info.export_font
    /\ info.kind = SNATCH_PLUGIN_KIND_TRANSFORMER => info.transform_font
    /\ info.kind = SNATCH_PLUGIN_KIND_EXTRACTOR => info.extract_font

NonEmptyString(str) == ~str.null /\ Len(str.s) > 0

RecordWellFormed(p) ==
    /\ p.info.abi_version = SNATCH_PLUGIN_ABI_VERSION
    /\ p.info.kind \in {SNATCH_PLUGIN_KIND_EXPORTER, SNATCH_PLUGIN_KIND_TRANSFORMER,
                        SNATCH_PLUGIN_KIND_EXTRACTOR}
    /\ KindCallbackPresent(p.info)
    /\ p.info.kind = SNATCH_PLUGIN_KIND_EXPORTER =>
          NonEmptyString(p.info.format) /\ NonEmptyString(p.info.standard)

\* C8: after any sequence of load operations every record the host holds
\* has metadata with the host's ABI version, one of the three kinds, the
\* callback of that kind and, for an exporter, a non-empty format and
\* standard.
C8_PluginRecordInvariant ==
    \A i \in 1..Len(plugins_) : RecordWellFormed(plugins_[i])

\* Several loads were issued and the host holds an exporter and a
\* transformer.
C8_Witness ==
    /\ host_loads > 1
    /\ \A kind \in {SNATCH_PLUGIN_KIND_EXPORTER, SNATCH_PLUGIN_KIND_TRANSFORMER} :
          \E i \in 1..Len(plugins_) : plugins_[i].info.kind = kind

\* A file that is a valid plugin: a regular .so file that opens, exports
\* the entry point, and whose entry point returns well-formed metadata.
ValidPluginFile(f) ==
    /\ f.regular
    /\ f.ext = ExtSo
    /\ f.obj.dlopen_ok
    /\ f.obj.has_sym
    /\ f.obj.get_rc = 0
    /\ f.obj.has_info
    /\ RecordWellFormed([info |-> f.obj.info])

\* A file whose validation fails after the shared object was opened.
OpenedThenRejected(f) ==
    f.regular /\ f.ext = ExtSo /\ f.obj.dlopen_ok /\ ~ValidPluginFile(f)

ValidPathsOf(dir) ==
    {PathOf(dir, f.stem, f.ext) : f \in {g \in dir_files(fs, dir) : ValidPluginFile(g)}}

\* C9: a file whose validation fails after it was opened is closed again
\* and adds no record, and the other files of the directory are still
\* loaded: after load_from_dir the host holds exactly the valid plugin files
\* of the directory, each once.
C9_FailedLoadsContained ==
    /\ \A p \in DOMAIN dl_refs : ~ValidPluginFile(file_at(fs, p)) => dl_refs[p] = 0
    /\ \A i \in 1..Len(plugins_) : ValidPluginFile(file_at(fs, plugins_[i].path))
    /\ host_last.op = "load_from_dir" =>
          /\ {plugins_[i].path : i \in 1..Len(plugins_)} = ValidPathsOf(host_last.dir)
          /\ Len(plugins_) = Cardinality(ValidPathsOf(host_last.dir))

\* load_from_dir met a file that failed validation after dlopen, then a
\* valid plugin, and holds the valid plugin.
C9_Witness ==
    /\ host_last.op = "load_from_dir"
    /\ Len(dir_entries(fs, host_last.dir)) >= 2
    /\ OpenedThenRejected(dir_entries(fs, host_last.dir)[1])
    /\ ValidPluginFile(dir_entries(fs, host_last.dir)[2])
    /\ \E i \in 1..Len(plugins_) :
          plugins_[i].path = PathOf(host_last.dir, dir_entries(fs, host_last.dir)[2].stem,
                                    ExtSo)

\* The number of records of the host that hold a handle of path p.
HeldCount(p) == Cardinality({i \in 1..Len(plugins_) : plugins_[i].handle = p})

\* C10: every handle that was opened and retained is either still held by
\* a record of the host or was closed, and once the host is destroyed every
\* handle is closed: no path has more open handles than records holding it.
C10_HandleOwnership ==
    \A p \in DOMAIN dl_refs : dl_refs[p] = HeldCount(p)

-----------------------------------------------------------------------------
(* Properties of the orchestrator.                                         *)

StageKind(stage) ==
    IF stage = "extract" THEN SNATCH_PLUGIN_KIND_EXTRACTOR
    ELSE IF stage = "transform" THEN SNATCH_PLUGIN_KIND_TRANSFORMER
    ELSE SNATCH_PLUGIN_KIND_EXPORTER

StagesOf(cs) == [i \in 1..Len(cs) |-> cs[i].stage]

\* The stage sequence of a complete run under the options o.
PlannedStages(o) ==
    IF o.transformer # <<>> THEN <<"extract", "transform", "export">>
    ELSE <<"extract", "export">>

\* C5: no stage function is invoked unless the extractor, the transformer
\* (if one was named) and the exporter are all resolved to loaded plugins of
\* the matching kind; the stages invoked are extract once, then transform at
\* most once (exactly when a transformer was named), then export at most
\* once, each one only after all earlier stages returned 0, and never twice
\* or out of order.
C5_StageOrdering ==
    /\ calls # <<>> =>
          /\ locals.extractor # 0
          /\ locals.plugin # 0
          /\ (opt.transformer # <<>>) = (locals.transformer # 0)
    /\ \A i \in 1..Len(calls) :
          /\ calls[i].plugin # 0
          /\ calls[i].kind = StageKind(calls[i].stage)
          /\ i < Len(calls) => calls[i].rc = 0
    /\ Len(calls) <= Len(PlannedStages(opt))
    /\ StagesOf(calls) = SubSeq(PlannedStages(opt), 1, Len(calls))

\* A run with a transformer named that invoked all three stages.
C5_Witness ==
    /\ main_pc = "exit"
    /\ exit_code = 0
    /\ StagesOf(calls) = <<"extract", "transform", "export">>
    /\ opt.extractor = <<>>

FailedStage(stage) ==
    /\ calls # <<>>
    /\ calls[Len(calls)].stage = stage
    /\ calls[Len(calls)].rc # 0

\* C6: a non-zero return from the extractor ends the run with exit code 4,
\* one from the transformer or the exporter ends it with exit code 5, and
\* exit code 0 is returned only when every stage invoked returned 0.
C6_StageFailureExitCodes ==
    /\ (\E i \in 1..Len(calls) : calls[i].rc # 0) => main_pc = "exit"
    /\ FailedStage("extract") => exit_code = 4
    /\ FailedStage("transform") \/ FailedStage("export") => exit_code = 5
    /\ exit_code = 0 =>
          /\ calls # <<>>
          /\ \A i \in 1..Len(calls) : calls[i].rc = 0

\* A run that the transformer ended.
C6_Witness ==
    /\ FailedStage("transform")
    /\ main_pc = "exit"
    /\ exit_code = 5

\* The parameter string raw holds a pair for key whose value is not empty.
HasNonEmptyValue(raw, key) ==
    \E pair \in SeqToSet(parse_kv_pairs(raw)) : pair.key = key /\ pair.value # <<>>

\* main is past the tests of the two path parameters.
PastPathChecks ==
    /\ main_pc \notin {"off", "start", "parsed"}
    /\ exit_code \notin CliErrorCodes

InputRequired == ErrorOf("extractor input path is required", <<>>)

OutputRequired == ErrorOf("exporter output path is required", <<>>)

-----------------------------------------------------------------------------
(* Properties of the host's destructor and of its ordered loads.           *)

\* The positions of the handle h in the sequence seq.
PositionsOf(seq, h) == {k \in 1..Len(seq) : seq[k] = h}

\* C11: when the host is destroyed it releases its handles in reverse load
\* order: of two records held, the one loaded later (the one further back in
\* plugins_) is closed before the one loaded earlier.
C11_ReverseReleaseOrder ==
    [][host_pc = "live" /\ host_pc' = "destroyed" =>
          \A i \in 1..Len(plugins_) : \A j \in 1..Len(plugins_) :
              i < j =>
                  \E a \in PositionsOf(dl_closed', plugins_[j].handle) :
                      \E b \in PositionsOf(dl_closed', plugins_[i].handle) : a < b]_vars

HeldPaths == {plugins_[i].path : i \in 1..Len(plugins_)}

\* The valid plugin files that a request for names finds in dir, as paths.
RequestedValidPaths(dir, names) ==
    {p \in ValidPathsOf(dir) : \E k \in 1..Len(names) : names[k] # <<>> /\ p.stem = names[k]}

\* Every non-empty name of names is the name of a valid plugin that the
\* request finds in dir, and the request finds at least one.
ResolvesIn(dir, names) ==
    /\ RequestedValidPaths(dir, names) # {}
    /\ \A k \in 1..Len(names) :
          names[k] # <<>> =>
              \E p \in RequestedValidPaths(dir, names) :
                  file_at(fs, p).obj.info.name = CStr(names[k])

\* The paths of the directories after position i of dirs that are not also
\* at or before it.
PathsOnlyAfter(dirs, i) ==
    {p \in DOMAIN dl_refs :
        /\ \E j \in (i + 1)..Len(dirs) : p.dir = dirs[j]
        /\ \A j \in 1..i : p.dir # dirs[j]}

\* C12: load_named_from_dirs_in_order stops at the first directory in which
\* every requested non-empty name resolves to a loaded plugin: afterwards
\* the host holds exactly the plugins the request loads from that directory,
\* none from another one, and (on a host that had loaded nothing before) no
\* shared object of a later directory was opened.
C12_NamedOrderedLoad ==
    host_last.op = "load_named_from_dirs_in_order" =>
        LET dirs == host_last.dirs
            names == host_last.names
            hits == {i \in 1..Len(dirs) : ResolvesIn(dirs[i], names)}
            first == SetMin(hits, Len(dirs))
        IN  hits # {} =>
                /\ HeldPaths = RequestedValidPaths(dirs[first], names)
                /\ Len(plugins_) = Cardinality(HeldPaths)
                /\ \A k \in 1..Len(plugins_) : plugins_[k].path.dir = dirs[first]
                /\ host_loads = 1 =>
                      \A p \in PathsOnlyAfter(dirs, first) : dl_refs[p] = 0

\* The request resolved in the first directory of two, and the second one
\* holds requested plugins too.
C12_Witness ==
    /\ host_last.op = "load_named_from_dirs_in_order"
    /\ Len(host_last.dirs) = 2
    /\ ResolvesIn(host_last.dirs[1], host_last.names)
    /\ RequestedValidPaths(host_last.dirs[2], host_last.names) # {}
    /\ Len(plugins_) = 2

\* C13: load_from_dirs_in_order stops at the first directory that
\* contributes a valid plugin: afterwards the host holds exactly the valid
\* plugins of that directory, each once (none when no directory has any),
\* never plugins of two directories, and (on a host that had loaded nothing
\* before) no shared object of another directory stays open.
C13_OrderedLoad ==
    host_last.op = "load_from_dirs_in_order" =>
        LET dirs == host_last.dirs
            hits == {i \in 1..Len(dirs) : ValidPathsOf(dirs[i]) # {}}
            first == SetMin(hits, Len(dirs))
        IN  IF hits = {} THEN plugins_ = <<>>
            ELSE /\ HeldPaths = ValidPathsOf(dirs[first])
                 /\ Len(plugins_) = Cardinality(HeldPaths)
                 /\ \A k \in 1..Len(plugins_) : plugins_[k].path.dir = dirs[first]
                 /\ host_loads = 1 =>
                       \A p \in DOMAIN dl_refs : p.dir # dirs[first] => dl_refs[p] = 0

\* The first directory of two contributed a valid plugin and the second one
\* holds valid plugins too.
C13_Witness ==
    /\ host_last.op = "load_from_dirs_in_order"
    /\ Len(host_last.dirs) = 2
    /\ ValidPathsOf(host_last.dirs[1]) # {}
    /\ ValidPathsOf(host_last.dirs[2]) # {}
    /\ plugins_ # <<>>

-----------------------------------------------------------------------------
(* Properties of the helper functions.                                     *)

\* The indices of the entries of items whose key is key.
Occurrences(items, key) == {i \in 1..Len(items) : items[i].key = key}

-----------------------------------------------------------------------------
(* Properties of the orchestrator's parameter strings.                     *)

\* The value of the last pair of the parameter string raw whose key is key.
LastValueOf(raw, key) ==
    parse_kv_pairs(raw)[SetMax(Occurrences(parse_kv_pairs(raw), key), 0)].value

\* C15: the lookup of the mandatory path keys is last-wins: the path handed
\* to the extractor is the value of the last input pair of the extractor
\* parameters, the path handed to the exporter is the value of the last
\* output pair of the exporter parameters.
C15_LastWinsPaths ==
    \A i \in 1..Len(calls) :
        /\ calls[i].stage = "extract" =>
              calls[i].path = LastValueOf(opt.extractor_parameters, K_input)
        /\ calls[i].stage = "export" =>
              calls[i].path = LastValueOf(opt.exporter_parameters, K_output)

\* The pairs of the parameter string raw other than those of the key
\* special, in their order.
PairsWithout(raw, special) ==
    LET pairs == parse_kv_pairs(raw)
        kept == {i \in 1..Len(pairs) : pairs[i].key # special}
        nth(k) == CHOOSE i \in kept : Cardinality({j \in kept : j < i}) = k - 1
    IN  [k \in 1..Cardinality(kept) |-> pairs[nth(k)]]

\* The key that is not passed on among the options of a stage.
SpecialKey(stage) ==
    IF stage = "extract" THEN K_input
    ELSE IF stage = "export" THEN K_output
    ELSE <<>>

StageParameters(stage) ==
    IF stage = "extract" THEN opt.extractor_parameters
    ELSE IF stage = "export" THEN opt.exporter_parameters
    ELSE opt.transformer_parameters

Trimmed(str) == str = <<>> \/ (~isspace(str[1]) /\ ~isspace(str[Len(str)]))

\* C16: the option array handed to a stage holds exactly the parsed pairs of
\* the stage's parameter string other than the special key (input for the
\* extractor, output for the exporter, none for the transformer), in their
\* order, with trimmed keys and values; no occurrence of the special key is
\* passed on.
C16_ParameterRouting ==
    \A i \in 1..Len(calls) :
        /\ calls[i].options = PairsWithout(StageParameters(calls[i].stage),
                                           SpecialKey(calls[i].stage))
        /\ \A k \in 1..Len(calls[i].options) :
              /\ calls[i].options[k].key # SpecialKey(calls[i].stage)
              /\ Trimmed(calls[i].options[k].key)
              /\ Trimmed(calls[i].options[k].value)

\* A run whose extractor parameters hold the special key among other pairs
\* and whose transformer got a bare key between two pairs of one key.
C16_Witness ==
    /\ Len(calls) = 3
    /\ opt.extractor_parameters = EP_spaced_png
    /\ Len(calls[1].options) = 1
    /\ opt.exporter_parameters = XP_proportional
    /\ Len(calls[3].options) = 1
    /\ Len(calls[2].options) = 3
    /\ calls[2].options[2] = [key |-> <<"v", "e", "r", "b", "o", "s", "e">>, value |-> <<>>]

\* The strings a and b are equal when letter case is ignored.
EqualIgnoringCase(a, b) ==
    /\ Len(a) = Len(b)
    /\ \A i \in 1..Len(a) : tolower(a[i]) = tolower(b[i])

IsAnyOf(token, names) == \E n \in names : EqualIgnoringCase(token, n)

TinyAliases == {T_partner_asm, T_partner_sdcc_asm_tiny_dashed, T_partner_tiny_asm}

BitmapAliases ==
    {T_partner_bitmap_asm, T_partner_sdcc_asm_bitmap_dashed, T_partner_bitmap_asm_sdcc}

\* C17: comparing case-insensitively, the exporter token asm is rejected
\* with an error and no plugin name, bin resolves to raw_bin, c to raw_c, the
\* aliases to partner_sdcc_asm_tiny or partner_sdcc_asm_bitmap, and every
\* other token resolves to itself, unchanged.
C17_ExporterResolution ==
    util_call.fn = "resolve_exporter_plugin" =>
        LET token == util_call.exporter
            name == util_result.plugin_name
            failed == util_result.error # NoError
        IN  IF IsAnyOf(token, {T_asm}) THEN failed /\ name = <<>>
            ELSE /\ ~failed
                 /\ name = IF IsAnyOf(token, {T_bin}) THEN N_raw_bin
                           ELSE IF IsAnyOf(token, {T_c}) THEN N_raw_c
                           ELSE IF IsAnyOf(token, TinyAliases)
                           THEN N_partner_sdcc_asm_tiny
                           ELSE IF IsAnyOf(token, BitmapAliases)
                           THEN N_partner_sdcc_asm_bitmap
                           ELSE token

\* An alias in capitals was resolved.
C17_Witness ==
    /\ util_call.fn = "resolve_exporter_plugin"
    /\ util_call.exporter # to_lower_copy(util_call.exporter)
    /\ IsAnyOf(util_call.exporter, BitmapAliases)
    /\ util_result.plugin_name = N_partner_sdcc_asm_bitmap

-----------------------------------------------------------------------------
(* Properties of the Partner streams' size.                                *)

\* C18: no Partner Bitmap stream that partner_bitmap_transform produced
\* with return code 0, and no Partner Tiny stream that raw_bin wrote with
\* return code 0, is longer than 65,535 bytes.
C18_StreamSizeLimit ==
    /\ transformer = "bitmap" /\ codec_pc = "transformed" /\ stage_rc = 0 =>
          Len(plugin_font.user_data.bytes) <= 65535
    /\ transformer = "tiny" /\ codec_pc = "exported" /\ stage_rc = 0 =>
          Len(out_file) <= 65535

-----------------------------------------------------------------------------
(* Properties of the glyph analyzer.                                       *)

\* The pixels of the width x height area of a glyph whose bit is set: bit
\* 7 - x mod 8 of byte x div 8 of row y.
SetPixels(g) ==
    {q \in (0..(g.width - 1)) \X (0..(g.height - 1)) :
        (g.data[q[2] * g.stride_bytes + (q[1] \div 8) + 1] \div Pow2(7 - (q[1] % 8))) % 2 = 1}

Unreadable(g) ==
    ~g.has_data \/ g.width = 0 \/ g.height = 0 \/ g.stride_bytes <= 0

\* C19: bounds returns the minimum and maximum x and y of the set pixels
\* within width x height, and left = right = top = bottom = -1 with empty
\* for a glyph with no set pixel, null data, zero width or height or
\* non-positive stride; leftmost_set_bit and rightmost_set_bit are its left
\* and right.
C19_BoundsCorrectness ==
    util_call.fn = "glyph_bitmap_analyzer::bounds" =>
        LET g == util_call.glyph
            b == util_result.bounds
            none == IF Unreadable(g) THEN TRUE ELSE SetPixels(g) = {}
        IN  /\ none => b = [left |-> -1, right |-> -1, top |-> -1, bottom |-> -1,
                            empty |-> TRUE]
            /\ ~none =>
                  LET xs == {q[1] : q \in SetPixels(g)}
                      ys == {q[2] : q \in SetPixels(g)}
                  IN  /\ ~b.empty
                      /\ b.left \in xs /\ \A x \in xs : b.left <= x /\ x <= b.right
                      /\ b.right \in xs
                      /\ b.top \in ys /\ \A y \in ys : b.top <= y /\ y <= b.bottom
                      /\ b.bottom \in ys
            /\ util_result.leftmost_set_bit = b.left
            /\ util_result.rightmost_set_bit = b.right

\* bounds was called on a 9 x 2 glyph whose set pixels are (8, 0), (2, 1) and
\* (8, 1) and whose unused bits of row 1 are set.
C19_Witness ==
    /\ util_call.fn = "glyph_bitmap_analyzer::bounds"
    /\ util_call.glyph.width = 9 /\ util_call.glyph.has_data
    /\ util_call.glyph.data = <<0, 128, 32, 255>>
    /\ util_result.bounds = [left |-> 2, right |-> 8, top |-> 0, bottom |-> 1,
                             empty |-> FALSE]

-----------------------------------------------------------------------------
(* Properties of the exporters' byte source.                               *)

\* C20: whenever raw_c and raw_bin both succeed on the same font (carrying
\* a Partner Bitmap payload, a Partner Tiny payload or only a bitmap table),
\* the bytes raw_c renders as the C array are the bytes raw_bin writes to its
\* file.
C20_SameByteSource ==
    util_call.fn = "export_raw_c, export_raw_bin" =>
        (util_result.raw_c.rc = 0 /\ util_result.raw_bin.rc = 0 =>
            util_result.raw_c.packed = util_result.raw_bin.file)

-----------------------------------------------------------------------------
(* Properties of the raw byte exporter's error handling.                   *)

\* The serialization of the Partner Tiny payload of the call is rejected.
TinyRejected ==
    /\ partner_tiny_data_from_user_data(util_call.font)
    /\ serialize_partner_tiny(util_call.font, util_call.options, util_call.errbuf).bytes
           = <<>>

\* C21: whenever export_raw_bin is called on a font with a Partner Tiny
\* payload whose serialization is rejected, with or without an error buffer,
\* it returns a non-zero code and writes no output file.
C21_TinyExportRejected ==
    util_call.fn = "export_raw_bin" /\ TinyRejected =>
        util_result.rc # 0 /\ ~util_result.written

-----------------------------------------------------------------------------
(* Further properties of the optimizer.                                    *)

\* C22: the last point of tsp_2opt(route) is the last point of route, and a
\* route of fewer than 3 points is returned as it is.
C22_FinalPointPinned ==
    route_pc = "done" =>
        /\ Len(optimized) = Len(route)
        /\ route # <<>> => optimized[Len(optimized)] = route[Len(route)]
        /\ Len(route) < 3 => optimized = route

\* A route of at least three points that 2-opt reordered.
C22_Witness ==
    /\ route_pc = "done"
    /\ Len(route) >= 3
    /\ optimized # route
    /\ optimized[Len(optimized)] = route[Len(route)]

\* How many times point p occurs in route r.
CountOf(r, p) == Cardinality({n \in 1..Len(r) : r[n] = p})

\* C28: tsp_2opt only reorders.  The output has the length of the input and
\* holds every (x, y, color) point as many times as the input does.
C28_Permutation ==
    route_pc = "done" =>
        /\ Len(optimized) = Len(route)
        /\ \A p \in SeqToSet(route) \cup SeqToSet(optimized) :
              CountOf(optimized, p) = CountOf(route, p)

\* A reordered route that holds one point twice.
C28_Witness ==
    /\ route_pc = "done"
    /\ optimized # route
    /\ \E p \in SeqToSet(route) : CountOf(route, p) = 2

-----------------------------------------------------------------------------
(* Properties of the route cost.                                           *)

\* The cost of the step from r[j] to r[j + 1] before any discount: its
\* Chebyshev distance d, plus the pen lift when d > 1, plus the colour change
\* when d <= 1 and the colours differ by more than the threshold.
StepCost(r, j) ==
    LET dxa == IF r[j].x >= r[j + 1].x THEN r[j].x - r[j + 1].x ELSE r[j + 1].x - r[j].x
        dya == IF r[j].y >= r[j + 1].y THEN r[j].y - r[j + 1].y ELSE r[j + 1].y - r[j].y
        d == IF dxa >= dya THEN dxa ELSE dya
        dc == IF r[j].color >= r[j + 1].color THEN r[j].color - r[j + 1].color
              ELSE r[j + 1].color - r[j].color
    IN  IF d > 1 THEN d + pen_lift_cost_
        ELSE IF dc > color_threshold_ THEN d + color_change_cost_
        ELSE d

StepDir(r, j) == <<r[j + 1].x - r[j].x, r[j + 1].y - r[j].y>>

\* free[j] tells whether step j is discounted: a cost-1 step, not the first,
\* in the direction of the step before it, unless the four steps before it
\* were all discounted.
FreeLineRule(r, free) ==
    \A j \in 1..(Len(r) - 1) :
        free[j] <=> /\ StepCost(r, j) = 1
                    /\ j > 1
                    /\ StepDir(r, j) = StepDir(r, j - 1)
                    /\ ~(j > max_free_line_run_
                          /\ \A b \in 1..max_free_line_run_ : free[j - b])

\* C24: total_cost(route) is the sum of the step costs with the discounted
\* steps counted as 0; the first step is never discounted and no five
\* consecutive steps are.
C24_RouteCost ==
    util_call.fn = "glyph_route_cost_model::total_cost" =>
        LET r == util_call.route
            m == IF Len(r) = 0 THEN 0 ELSE Len(r) - 1
        IN  /\ \E free \in [1..m -> BOOLEAN] : FreeLineRule(r, free)
            /\ \A free \in [1..m -> BOOLEAN] :
                  FreeLineRule(r, free) =>
                      /\ util_result
                            = SumSizes([j \in 1..m |-> IF free[j] THEN 0 ELSE StepCost(r, j)],
                                       1, m)
                      /\ m >= 1 => ~free[1]
                      /\ \A j \in 1..(m - max_free_line_run_) :
                            \E b \in 0..max_free_line_run_ : ~free[j + b]

\* total_cost was called on six steps to the right: the first is paid, four
\* go free, the sixth is paid again.
C24_Witness ==
    /\ util_call.fn = "glyph_route_cost_model::total_cost"
    /\ Len(util_call.route) = 7
    /\ \A j \in 1..6 : StepDir(util_call.route, j) = <<1, 0>> /\ StepCost(util_call.route, j) = 1
    /\ util_result = 2

-----------------------------------------------------------------------------
(* Properties of the Partner Tiny move byte.                               *)

\* Bit b of a byte.
Bit(byte, b) == (byte \div (2 ^ b)) % 2

\* The value of bits hi..lo of a byte, hi = lo + 1.
Bits2(byte, hi, lo) == 2 * Bit(byte, hi) + Bit(byte, lo)

\* C25: for every move with dx, dy in -3..3 and colour code in 0..3 the byte
\* is c0 | |dx| | |dy| | sy | sx | c1 from bit 7 down to bit 0, the sign bits
\* 1 for negative, the colour code (c1 << 1) | c0, and the decoder reads the
\* same dx, dy and colour code from it.
C25_MoveByteRoundTrip ==
    util_call.fn = "encode_tiny_move" =>
        LET move == util_call.move
            byte == util_result.byte
        IN  /\ byte \in 0..255
            /\ Bit(byte, 7) = move.color % 2
            /\ Bits2(byte, 6, 5) = (IF move.dx < 0 THEN -move.dx ELSE move.dx)
            /\ Bits2(byte, 4, 3) = (IF move.dy < 0 THEN -move.dy ELSE move.dy)
            /\ Bit(byte, 2) = (IF move.dy < 0 THEN 1 ELSE 0)
            /\ Bit(byte, 1) = (IF move.dx < 0 THEN 1 ELSE 0)
            /\ Bit(byte, 0) = move.color \div 2
            /\ util_result.decoded = move

\* The move (-3, 2) in colour code 2 was encoded as byte 115 and decoded.
C25_Witness ==
    /\ util_call.fn = "encode_tiny_move"
    /\ util_call.move = [dx |-> -3, dy |-> 2, color |-> 2]
    /\ util_result.byte = 115
    /\ util_result.decoded = util_call.move

-----------------------------------------------------------------------------
(* Properties of the Partner Tiny raster decoder.                          *)

\* The value of pixel (x, y) in a row-major, MSB-first buffer.
PixelAt(buf, stride, x, y) == Bit(buf[y * stride + (x \div 8) + 1], 7 - (x % 8))

\* (x, y) is a pixel of the rasterised line from s to e: inside the box the
\* two points span and at most half a pixel off the straight line.
OnLine(s, e, x, y) ==
    LET ddx == e.x - s.x
        ddy == e.y - s.y
        long == IF Abs(ddx) > Abs(ddy) THEN Abs(ddx) ELSE Abs(ddy)
    IN  /\ x >= Min2(s.x, e.x) /\ x <= Max2(s.x, e.x)
        /\ y >= Min2(s.y, e.y) /\ y <= Max2(s.y, e.y)
        /\ 2 * Abs((x - s.x) * ddy - (y - s.y) * ddx) <= long

\* The value colour 1, 2 or 3 gives a pixel that was old.
Painted(color, old) == IF color = 1 THEN 1 ELSE IF color = 2 THEN 0 ELSE 1 - old

\* C26: for every move byte the cursor advances by (dx, dy) whatever the
\* colour; a move of colour 0 changes no pixel; a move of colour 1, 2 or 3
\* changes only pixels on the line from the old to the new cursor, to set,
\* cleared or toggled, both ends included where they lie in the glyph; no
\* bit outside 0 <= x < width, 0 <= y < height changes and the buffer keeps
\* its size.
C26_MoveSemantics ==
    util_call.fn = "raster_moves" =>
        LET c == util_call
            mv == decode_tiny_move(c.stream[Len(c.stream)])
            old == util_result.before
            new == util_result.after
        IN  /\ new.cursor = [x |-> old.cursor.x + mv.dx, y |-> old.cursor.y + mv.dy]
            /\ Len(new.buf) = c.stride * c.gh
            /\ Len(old.buf) = c.stride * c.gh
            /\ mv.color = 0 => new.buf = old.buf
            /\ \A x \in 0..(c.stride * 8 - 1), y \in 0..(c.gh - 1) :
                  LET was == PixelAt(old.buf, c.stride, x, y)
                      is == PixelAt(new.buf, c.stride, x, y)
                      p == [x |-> x, y |-> y]
                  IN  /\ is # was =>
                            /\ x < c.gw
                            /\ OnLine(old.cursor, new.cursor, x, y)
                            /\ is = Painted(mv.color, was)
                      /\ (mv.color # 0 /\ x < c.gw /\ p \in {old.cursor, new.cursor})
                            => is = Painted(mv.color, was)

\* A toggling move from inside a 3 x 2 glyph to a cursor outside of it has
\* changed a pixel.
C26_Witness ==
    /\ util_call.fn = "raster_moves"
    /\ util_call.gw = 3
    /\ util_result.before.cursor = [x |-> 1, y |-> 1]
    /\ util_result.after.cursor = [x |-> 4, y |-> -1]
    /\ decode_tiny_move(util_call.stream[Len(util_call.stream)]).color = 3
    /\ util_result.after.buf # util_result.before.buf

\* C29: for every byte stream handed to the raster decoder, whole, cut short
\* or with a damaged offset, range or move count, every byte index the
\* decoder reads lies below the stream's size; a stream it cannot decode
\* makes it return one of the codes 30..36 with the font value as it was, no
\* bitmap table on it, and a stream it decodes makes it return 0.
C29_ReadsInsideInput ==
    util_call.fn = "transform_partner_tiny_raster" =>
        LET r == util_result.r
            read == util_result.read
            size == Len(util_call.bytes)
        IN  /\ \A i \in read.reads : i >= 0 /\ i < size
            /\ read.rc = r.rc
            /\ r.rc \in {0} \cup 30..36
            /\ r.rc # 0 => r.font = util_call.font /\ ~r.font.has_bitmap
            /\ r.rc = 0 => r.font.has_bitmap

\* A stream whose second offset entry points at the last three bytes of the
\* stream was refused with code 34 after the first record was read.
C29_Witness ==
    /\ util_call.fn = "transform_partner_tiny_raster"
    /\ util_result.r.rc = 34
    /\ Len(util_call.bytes) >= 9
    /\ read_u16le(util_call.bytes, 7) = Len(util_call.bytes) - 3
    /\ Cardinality(util_result.read.reads) > 8

-----------------------------------------------------------------------------
(* Termination of the optimizer.                                           *)

\* C27: tsp_2opt returns on every route: the scan is restarted only with a
\* best route of strictly lower cost, no cost is negative, and every run
\* reaches the return.
C27_Terminates ==
    /\ [][(route_pc = "scanning" /\ route_pc' = "scanning")
             => /\ total_cost(optimized') < total_cost(optimized)
                /\ total_cost(optimized') >= 0]_vars
    /\ <>(route_pc = "done")

\* The scan was restarted with a shorter route and will be restarted again.
C27_Witness ==
    /\ route_pc = "scanning"
    /\ total_cost(optimized) < total_cost(route)
    /\ first_improving(optimized, total_cost(optimized), 0, 1) # <<>>

-----------------------------------------------------------------------------
(* Properties of the Partner Bitmap cell.                                  *)

\* The glyphs of a font present in its codepoint range.
GlyphsInRange(font) ==
    {font.glyphs[i] : i \in {j \in 1..Len(font.glyphs) :
        /\ font.glyphs[j].codepoint >= font.first_codepoint
        /\ font.glyphs[j].codepoint <= font.last_codepoint}}

\* Bit x of row r of the payload of the record at pos, its rows
\* (cell width + 7) / 8 bytes long.
CellBit(stream, pos, x, r) ==
    Bit(At(stream, pos + 4 + r * ((At(stream, pos + 1) + 7) \div 8) + (x \div 8)),
        7 - (x % 8))

\* C23: in the stream of every accepted font with a glyph in its range,
\* every record has the cell height H = max(1, max_bearing_y - min_descender),
\* max_bearing_y the largest bearing_y and min_descender the smallest
\* bearing_y - height of the glyphs in the range, and the rows of every
\* glyph start at row max_bearing_y - bearing_y of its cell.
C23_CellHeight ==
    (transformer = "bitmap" /\ codec_pc = "transformed" /\ stage_rc = 0
        /\ GlyphsInRange(src_font) # {}) =>
        LET stream == plugin_font.user_data.bytes
            G == GlyphsInRange(src_font)
            max_bearing_y == CHOOSE v \in {g.bearing_y : g \in G} :
                                 \A g \in G : g.bearing_y <= v
            min_descender == CHOOSE v \in {g.bearing_y - g.height : g \in G} :
                                 \A g \in G : v <= g.bearing_y - g.height
            H == Max2(1, max_bearing_y - min_descender)
        IN  /\ At(stream, 2) = H
            /\ \A i \in 0..(src_font.last_codepoint - src_font.first_codepoint) :
                  LET pos == read_u16le(stream, 5 + 2 * i)
                      bytes_per_row == (At(stream, pos + 1) + 7) \div 8
                  IN  /\ At(stream, pos + 2) = H
                      /\ At(stream, pos + 3) = bytes_per_row * H
                      /\ \A g \in G :
                            g.codepoint = src_font.first_codepoint + i =>
                                \A q \in PixelSet(g) :
                                    q[1] < At(stream, pos + 1) =>
                                        /\ q[2] + max_bearing_y - g.bearing_y < H
                                        /\ CellBit(stream, pos, q[1],
                                               q[2] + max_bearing_y - g.bearing_y) = 1

-----------------------------------------------------------------------------
(* Properties of the option arrays.                                        *)

\* The pointer refers to string part of element index of the storage as it
\* is now.
PointsAt(ptr, v, index, part) ==
    /\ ptr.index = index
    /\ ptr.part = part
    /\ ptr.inline => ptr.block = v.block

\* C30: for any number of forwarded parameters, while the pairs are
\* appended and when the stage is invoked every entry of the option array
\* refers to the key and the value of its own pair in the backing storage,
\* and the stage reads the pair's key and value through it.
C30_OptionArrayValid ==
    util_call.fn = "append_kv_params" =>
        /\ \A i \in 1..Len(util_result.out) :
              /\ PointsAt(util_result.out[i].key, util_result.storage, i, 1)
              /\ PointsAt(util_result.out[i].value, util_result.storage, i, 2)
        /\ util_call.pc = "read" =>
              /\ util_result.key = util_call.pairs[util_result.index].key
              /\ util_result.value = util_call.pairs[util_result.index].value

=============================================================================
